---- MODULE Spec2Model ----
(***************************************************************************)
(* Model of the enrichment pipeline of src/app/api/alerts/route.ts:        *)
(* trade deduplication, the wallet-birth resolver (enrichCreatedAt) with   *)
(* its in-memory cache, snapshot load and debounced flush, and the market  *)
(* category resolver (enrichCategoriesByConditionIds) with its event-tag   *)
(* cache.  One action is one run-to-completion block of the JavaScript     *)
(* event loop: the code between two suspension points (await).             *)
(***************************************************************************)
EXTENDS Integers, Sequences, FiniteSets, TLC

\* ------------------------------------------------------------------ values

NULL == "null"

Min(a, b) == IF a < b THEN a ELSE b

\* String.prototype.toLowerCase on the identifiers the model draws.
toLowerCase(s) ==
  CASE s = "0xA" -> "0xa"
    [] s = "0xB" -> "0xb"
    [] s = "0xM1" -> "0xm1"
    [] s = "0xM2" -> "0xm2"
    [] s = "Elections" -> "elections"
    [] s = "Weekly" -> "weekly"
    [] s = "Crypto" -> "crypto"
    [] s = "Bitcoin" -> "bitcoin"
    [] s = "Other" -> "other"
    [] OTHER -> s

\* String.prototype.trim on the slugs the model draws.
trim(s) == CASE s = " crypto " -> "crypto" [] OTHER -> s

\* s.startsWith("0x") on the transaction hashes the providers may return.
startsWith0x(s) == s \in {"0xt1"}

\* ------------------------------------------------------------------ Map

\* A JavaScript Map: a sequence of [k, v] in insertion order; set() on an
\* existing key keeps the key's position.
MapHas(m, k) == \E i \in 1..Len(m) : m[i].k = k

MapIndex(m, k) == CHOOSE i \in 1..Len(m) : m[i].k = k

MapGet(m, k) == m[MapIndex(m, k)].v

MapSet(m, k, v) ==
  IF MapHas(m, k)
    THEN [m EXCEPT ![MapIndex(m, k)] = [k |-> k, v |-> v]]
    ELSE Append(m, [k |-> k, v |-> v])

MapKeys(m) == {m[i].k : i \in 1..Len(m)}

\* map.get(k) ?? null
MapGetOrNull(m, k) == IF MapHas(m, k) THEN MapGet(m, k) ELSE NULL

EmptyMap == <<>>

\* A Map whose insertion order the code never observes (it is only read
\* with get and has): a function on its keys.
EmptyLookup == [x \in {} |-> NULL]

LookupHas(m, k) == k \in DOMAIN m

LookupSet(m, k, v) == [x \in DOMAIN m \cup {k} |-> IF x = k THEN v ELSE m[x]]

\* Array.from(new Set(xs)): first occurrences, in order.
RECURSIVE UniqueOf(_, _)
UniqueOf(xs, acc) ==
  IF xs = <<>> THEN acc
  ELSE IF \E i \in 1..Len(acc) : acc[i] = Head(xs)
         THEN UniqueOf(Tail(xs), acc)
         ELSE UniqueOf(Tail(xs), Append(acc, Head(xs)))

\* xs.map(f) for f = toLowerCase
MapLower(xs) == [i \in 1..Len(xs) |-> toLowerCase(xs[i])]

\* xs.slice(0, n) for n >= 0
SliceTo(xs, n) == SubSeq(xs, 1, Min(n, Len(xs)))

\* xs.slice(-n) for n > 0
SliceLast(xs, n) == IF Len(xs) <= n THEN xs ELSE SubSeq(xs, Len(xs) - n + 1, Len(xs))

\* xs.filter(p) for a set-based predicate
RECURSIVE FilterIn(_, _)
FilterIn(xs, S) ==
  IF xs = <<>> THEN <<>>
  ELSE IF Head(xs) \in S THEN <<Head(xs)>> \o FilterIn(Tail(xs), S)
       ELSE FilterIn(Tail(xs), S)

Range(xs) == {xs[i] : i \in 1..Len(xs)}

\* All sequences over S of length at most n.
RECURSIVE SeqsUpTo(_, _)
SeqsUpTo(S, n) ==
  IF n = 0 THEN {<<>>}
  ELSE LET shorter == SeqsUpTo(S, n - 1)
       IN shorter \cup {Append(s, x) : s \in {t \in shorter : Len(t) = n - 1}, x \in S}

\* ------------------------------------------------------------------ constants

CACHE_TTL_MS == 24 * 60 * 60 * 1000
NULL_CACHE_TTL_MS == 60 * 60 * 1000
FLUSH_DELAY_MS == 800
SNAPSHOT_CAP == 5000
CONCURRENCY == 2
EVENT_TAG_TTL_MS == 6 * 60 * 60 * 1000
CHUNK == 30
\* Variant: a tag pool as wide as the wide list.
WidePool == 2 + 3

CONCURRENCY_TAGS == 4
\* Variant: the retry pass takes one address more.
RetryCapWide == 30 + 1

RETRY_CAP == 30
\* The page's timeout for one load().
LOAD_TIMEOUT_MS == 20000
POLL_MS == 60000

\* ------------------------------------------------------------------ bounds

\* Length of the address list handed to one call.
MaxAddrs == 2
\* Largest cap (maxUnique) handed to one call.
MaxCap == 2
\* Clock advances in one behaviour.
MaxTicks == 1
\* Length of the condition id list handed to one call.
MaxIds == 2
\* Length of the trade list GET receives.
MaxTrades == 3
\* Length of the tag-slug list handed to the pick functions.
MaxSlugs == 3
\* Number of load() invocations of one page.
MaxLoads == 4

CallSlots == {1, 2}
Workers == 1..CONCURRENCY

\* Wallet addresses as they arrive (mixed case) and the clock at process start.
Wallets == {"0xA", "0xa", "0xb"}
T0 == CACHE_TTL_MS
TickSteps == {1, FLUSH_DELAY_MS}

\* new Date(tsSec * 1000).toISOString() on the block times the model draws.
toISOString(tsSec) ==
  CASE tsSec = 1600000000 -> "2020-09-13T12:26:40.000Z"
    [] OTHER -> "1970-01-01T00:00:00.000Z"
ISO1 == toISOString(1600000000)

\* The snapshot files the process may find at start: none, an unreadable
\* one, or one written by an earlier run with a timestamp for 0xa and a
\* negative entry for 0xb; at T0 one of the two is exactly at the end of
\* its TTL and the other 1 ms before it.
BirthEntry(iso, at) == [createdAtIso |-> iso, cachedAtMs |-> at]
File(kind, entries) == [kind |-> kind, entries |-> entries]
DiskInits ==
  {File("ENOENT", <<>>), File("garbage", <<>>)}
    \cup {File("json", <<[k |-> "0xa", v |-> BirthEntry(ISO1, at)],
                          [k |-> "0xb", v |-> BirthEntry(NULL, T0 - NULL_CACHE_TTL_MS + 1 - at)]>>) :
            at \in {0, 1}}

\* ------------------------------------------------------------------ state

VARIABLES
  clock,          \* Date.now()
  ticks,          \* clock advances so far
  birthCache,     \* Map addr -> {createdAtIso, cachedAtMs}
  cacheLoaded,    \* the module flag
  loadPending,    \* ensureCacheLoaded is awaiting fs.readFile
  flushTimer,     \* the module's timer handle: <<>> (null) or <<due time>>
  pendingFlushes, \* flush timeouts the event loop holds, by due time
  writes,         \* fs.writeFile calls in flight (their payloads)
  disk,           \* content of .birthCache.json
  call,           \* per call slot: the locals of enrichCreatedAt
  worker,         \* per call slot and pool worker: the worker's position
  retry           \* per call slot: the retry pass's position

VARIABLES
  eventTagCache,  \* Map eventId -> {tags, cachedAtMs}, by key
  cat,            \* per call: the locals of enrichCategoriesByConditionIds
  catWorker       \* per call and pool worker: the worker's position

VARIABLES
  trades,         \* the trade list GET received
  di,             \* trades consumed by the dedup loop
  seen,           \* the Set of keys seen
  uniqTrades      \* the trades kept

VARIABLES
  oracle,         \* the external answers of a behaviour, when they are fixed
  req,            \* GET: the position and the response of the request
  client,         \* the page: the state load() reads and writes
  pickIn,         \* a tag-slug list handed to the two pick functions
  pickOut,        \* what they returned
  lastFlush       \* the flush that fired last: whether one has, and its snapshot

birthVars ==
  <<clock, ticks, birthCache, cacheLoaded, loadPending, flushTimer,
    pendingFlushes, writes, disk, call, worker, retry>>

catVars == <<eventTagCache, cat, catWorker>>

dedupVars == <<trades, di, seen, uniqTrades>>

restVars == <<oracle, req, client, pickIn, pickOut, lastFlush>>

\* What the wallet-birth resolver never touches.
notBirth == <<catVars, dedupVars, restVars>>

vars == <<birthVars, catVars, dedupVars, restVars>>

\* ------------------------------------------------------------------ fixed answers

\* The answers are not fixed: every request may come back with any answer.
FreeOracle == [fixed |-> FALSE]

IdleReq == [pc |-> "idle", status |-> 0, out |-> <<>>]

\* The page before its first load(); cut is the position of the request on
\* the server when the page's timer fired ("" while it has not).
IdleClient ==
  [pc |-> "idle", inFlight |-> FALSE, loading |-> FALSE, apiError |-> "",
   data |-> <<>>, due |-> 0, cut |-> ""]

NoPick == [category |-> NULL, subcategory |-> NULL]

\* ------------------------------------------------------------------ providers

\* What a provider request can come back with: the request raises, answers
\* non-OK, or answers a JSON body carrying the field read from it.
ProviderResponses ==
  {[kind |-> "throw", tx |-> NULL], [kind |-> "notok", tx |-> NULL],
   [kind |-> "json", tx |-> NULL], [kind |-> "json", tx |-> "0xt1"],
   [kind |-> "json", tx |-> "t1"]}

TxResponses ==
  {[kind |-> "throw", blockNumber |-> NULL], [kind |-> "json", blockNumber |-> NULL],
   [kind |-> "json", blockNumber |-> "0x10"]}

BlockResponses ==
  {[kind |-> "throw", timestamp |-> NULL], [kind |-> "json", timestamp |-> NULL],
   [kind |-> "json", timestamp |-> "0x5f5e1000"], [kind |-> "json", timestamp |-> "zz"]}

\* Fixed answers of the providers and the chain RPC to one lookup attempt:
\* a creation time is found ("iso"), a hash is found by the legacy provider
\* but the transaction has no block ("nullchain"), or no hash is found.
ChainScripts == {"iso", "nullchain", "nohash"}

Script(name) ==
  CASE name = "iso" ->
         [v2 |-> [kind |-> "json", tx |-> "0xt1"],
          legacy |-> [kind |-> "throw", tx |-> NULL],
          tx |-> [kind |-> "json", blockNumber |-> "0x10"],
          block |-> [kind |-> "json", timestamp |-> "0x5f5e1000"]]
    [] name = "nullchain" ->
         [v2 |-> [kind |-> "json", tx |-> "t1"],
          legacy |-> [kind |-> "json", tx |-> "0xt1"],
          tx |-> [kind |-> "json", blockNumber |-> NULL],
          block |-> [kind |-> "throw", timestamp |-> NULL]]
    [] OTHER ->
         [v2 |-> [kind |-> "notok", tx |-> NULL],
          legacy |-> [kind |-> "throw", tx |-> NULL],
          tx |-> [kind |-> "throw", blockNumber |-> NULL],
          block |-> [kind |-> "throw", timestamp |-> NULL]]

\* What the request of an attempt (phase "pool" or "retry") for an address
\* can come back with.
V2Answers(phase, addr) ==
  IF oracle.fixed THEN {Script(oracle.chain[phase][addr]).v2} ELSE ProviderResponses

LegacyAnswers(phase, addr) ==
  IF oracle.fixed THEN {Script(oracle.chain[phase][addr]).legacy} ELSE ProviderResponses

TxAnswers(phase, addr) ==
  IF oracle.fixed THEN {Script(oracle.chain[phase][addr]).tx} ELSE TxResponses

BlockAnswers(phase, addr) ==
  IF oracle.fixed THEN {Script(oracle.chain[phase][addr]).block} ELSE BlockResponses

NaN == -1

\* parseInt(tsHex, 16)
parseInt16(h) == CASE h = "0x5f5e1000" -> 1600000000 [] OTHER -> NaN

\* Variant: the primary provider's field is handed on without the 0x test.
blockscoutV2AnyString(resp) == IF resp.kind # "json" THEN NULL ELSE resp.tx

blockscoutV2CreationTxHash(resp) ==
  IF resp.kind # "json" THEN NULL
  ELSE IF resp.tx # NULL /\ startsWith0x(resp.tx) THEN resp.tx ELSE NULL

blockscoutLegacyCreationTxHash(resp) ==
  IF resp.kind # "json" THEN NULL
  ELSE IF resp.tx # NULL /\ startsWith0x(resp.tx) THEN resp.tx ELSE NULL

\* getCreatedAtISOFromCreationTx, first half: the block number of the
\* transaction, NULL when the function returns null here.
TxBlockNumber(resp) == IF resp.kind # "json" THEN NULL ELSE resp.blockNumber

\* getCreatedAtISOFromCreationTx, second half: the ISO time of the block.
BlockCreatedAtIso(resp) ==
  IF resp.kind # "json" \/ resp.timestamp = NULL THEN NULL
  ELSE IF parseInt16(resp.timestamp) = NaN THEN NULL
  ELSE toISOString(parseInt16(resp.timestamp))

\* ------------------------------------------------------------------ flush

scheduleFlushUnguarded ==
  /\ flushTimer' = <<clock + FLUSH_DELAY_MS>>
  /\ pendingFlushes' = Append(pendingFlushes, clock + FLUSH_DELAY_MS)

\* A scheduleFlushCacheToDisk that sets no timer.
scheduleFlushNever == UNCHANGED <<flushTimer, pendingFlushes>>

scheduleFlushCacheToDisk ==
  IF flushTimer # <<>>
       THEN UNCHANGED <<flushTimer, pendingFlushes>>
       ELSE /\ flushTimer' = <<clock + FLUSH_DELAY_MS>>
            /\ pendingFlushes' = Append(pendingFlushes, clock + FLUSH_DELAY_MS)

NoFlushCall == UNCHANGED <<flushTimer, pendingFlushes>>

\* No flush has fired in this process.
NoFlush == [fired |-> FALSE, entries |-> <<>>]

RemoveAt(xs, i) == SubSeq(xs, 1, i - 1) \o SubSeq(xs, i + 1, Len(xs))

\* Array.from(birthCache.entries()).slice(-5000), copied into the object
\* that is serialised.
FlushSnapshot(cache) == SliceLast(cache, SNAPSHOT_CAP)

\* The timeout callback up to its await of fs.writeFile.
FlushFire ==
  \E i \in 1..Len(pendingFlushes) :
    /\ pendingFlushes[i] <= clock
    /\ pendingFlushes' = RemoveAt(pendingFlushes, i)
    /\ flushTimer' = <<>>
    /\ writes' = Append(writes, FlushSnapshot(birthCache))
    /\ lastFlush' = [fired |-> TRUE, entries |-> FlushSnapshot(birthCache)]
    /\ UNCHANGED <<catVars, dedupVars, oracle, req, client, pickIn, pickOut, clock, ticks,
                   birthCache, cacheLoaded, loadPending, disk, call, worker, retry>>

\* fs.writeFile completes: the file is replaced wholesale.
WriteLand ==
  \E i \in 1..Len(writes) :
    /\ disk' = File("json", writes[i])
    /\ writes' = RemoveAt(writes, i)
    /\ NoFlushCall
    /\ UNCHANGED <<notBirth, clock, ticks, birthCache, cacheLoaded, loadPending,
                   call, worker, retry>>

\* fs.writeFile rejects: caught and logged.
WriteFail ==
  \E i \in 1..Len(writes) :
    /\ writes' = RemoveAt(writes, i)
    /\ NoFlushCall
    /\ UNCHANGED <<notBirth, clock, ticks, birthCache, cacheLoaded, loadPending, disk,
                   call, worker, retry>>

\* ------------------------------------------------------------------ load

RECURSIVE MergeEntries(_, _)
MergeEntries(cache, entries) ==
  IF entries = <<>> THEN cache
  ELSE MergeEntries(MapSet(cache, Head(entries).k, Head(entries).v), Tail(entries))

\* ensureCacheLoaded up to its await of fs.readFile.
LoadBegin ==
  /\ ~cacheLoaded
  /\ cacheLoaded' = TRUE
  /\ loadPending' = TRUE
  /\ NoFlushCall
  /\ UNCHANGED <<notBirth, clock, ticks, birthCache, writes, disk, call, worker, retry>>

\* fs.readFile returns (or rejects) and the entries are merged.
LoadEnd ==
  /\ loadPending
  /\ loadPending' = FALSE
  /\ birthCache' = IF disk.kind # "json" THEN birthCache
                   ELSE MergeEntries(birthCache, disk.entries)
  /\ NoFlushCall
  /\ UNCHANGED <<notBirth, clock, ticks, cacheLoaded, writes, disk, call, worker, retry>>

\* ------------------------------------------------------------------ clock

Tick ==
  \E d \in TickSteps :
    /\ ticks < MaxTicks
    /\ ticks' = ticks + 1
    /\ clock' = clock + d
    /\ NoFlushCall
    /\ UNCHANGED <<notBirth, birthCache, cacheLoaded, loadPending, writes, disk,
                   call, worker, retry>>

\* ------------------------------------------------------------------ enrichCreatedAt

IdleCall ==
  [pc |-> "idle", addresses |-> <<>>, maxUnique |-> 0, now |-> 0, uniq |-> <<>>,
   needFetch |-> <<>>, resultMap |-> EmptyMap, idx |-> 0, retryList |-> <<>>,
   ri |-> 0, cache0 |-> <<>>, looked |-> {}, wrote |-> {},
   failedPool |-> {}, failedRetry |-> {}, tries |-> <<>>]

IdleChain == [pc |-> "idle", addr |-> NULL, tx |-> NULL, blk |-> NULL]
DoneChain == [pc |-> "done", addr |-> NULL, tx |-> NULL, blk |-> NULL]
Chain(pc, addr, tx, blk) == [pc |-> pc, addr |-> addr, tx |-> tx, blk |-> blk]

\* JavaScript truthiness of createdAtIso (a string or null).
Truthy(v) == v # NULL /\ v # ""

CacheWrite(cache, addr, iso, now) == MapSet(cache, addr, BirthEntry(iso, now))

\* Variant: the slice keeps one address more than the cap.
UniqAddressesOffByOne(addresses, maxUnique) ==
  SliceTo(UniqueOf(MapLower(addresses), <<>>), maxUnique + 1)

\* uniq = Array.from(new Set(addresses.map(toLowerCase))).slice(0, maxUnique)
UniqAddresses(addresses, maxUnique) ==
  SliceTo(UniqueOf(MapLower(addresses), <<>>), maxUnique)

\* Variant: an entry whose age equals its ttl still counts as fresh.
IsFreshInclusive(cache, addr, now) ==
  /\ MapHas(cache, addr)
  /\ LET cached == MapGet(cache, addr)
         ttl == IF Truthy(cached.createdAtIso) THEN CACHE_TTL_MS ELSE NULL_CACHE_TTL_MS
     IN now - cached.cachedAtMs <= ttl

\* cached && now - cached.cachedAtMs < ttl, ttl chosen by the cached value
IsFresh(cache, addr, now) ==
  /\ MapHas(cache, addr)
  /\ LET cached == MapGet(cache, addr)
         ttl == IF Truthy(cached.createdAtIso) THEN CACHE_TTL_MS ELSE NULL_CACHE_TTL_MS
     IN now - cached.cachedAtMs < ttl

\* The partition loop: [resultMap, needFetch]
RECURSIVE Partition(_, _, _, _)
Partition(uniq, cache, now, acc) ==
  IF uniq = <<>> THEN acc
  ELSE LET addr == Head(uniq) IN
       IF IsFresh(cache, addr, now)
         THEN Partition(Tail(uniq), cache, now,
                [acc EXCEPT !.resultMap = MapSet(@, addr, MapGet(cache, addr).createdAtIso)])
         ELSE Partition(Tail(uniq), cache, now,
                [acc EXCEPT !.needFetch = Append(@, addr)])

\* Variant: the worker marks the cache but not the map before the lookup.
WorkerLoopNoMark(cache, cl) ==
  IF cl.idx < Len(cl.needFetch)
    THEN LET addr == cl.needFetch[cl.idx + 1] IN
         [cache |-> CacheWrite(cache, addr, NULL, cl.now),
          cl |-> [cl EXCEPT !.idx = @ + 1,
                            !.looked = @ \cup {addr},
                            !.wrote = @ \cup {addr},
                            !.tries = Append(@, <<"pool", addr>>)],
          wk |-> Chain("v2", addr, NULL, NULL)]
    ELSE [cache |-> cache, cl |-> cl, wk |-> DoneChain]

\* One pass through the head of the worker's while loop, up to the first
\* await: claim the next index, mark the address, issue the primary lookup.
WorkerLoop(cache, cl) ==
  IF cl.idx < Len(cl.needFetch)
    THEN LET addr == cl.needFetch[cl.idx + 1] IN
         [cache |-> CacheWrite(cache, addr, NULL, cl.now),
          cl |-> [cl EXCEPT !.idx = @ + 1,
                            !.resultMap = MapSet(@, addr, NULL),
                            !.looked = @ \cup {addr},
                            !.wrote = @ \cup {addr},
                            !.tries = Append(@, <<"pool", addr>>)],
          wk |-> Chain("v2", addr, NULL, NULL)]
    ELSE [cache |-> cache, cl |-> cl, wk |-> DoneChain]

\* Array.from({ length: CONCURRENCY }, worker): the workers start one after
\* the other, each running to its first await.
RECURSIVE StartWorkers(_, _, _, _)
StartWorkers(cache, cl, wks, w) ==
  IF w > CONCURRENCY THEN [cache |-> cache, cl |-> cl, wks |-> wks]
  ELSE LET s == WorkerLoop(cache, cl)
       IN StartWorkers(s.cache, s.cl, [wks EXCEPT ![w] = s.wk], w + 1)

\* enrichCreatedAt(addresses, maxUnique) up to its await of Promise.all: what
\* the call writes.
enrichCreatedAtBegin(c, addresses, maxUnique) ==
    /\ cacheLoaded
    /\ call[c].pc = "idle"
    /\ LET uniq == UniqAddresses(addresses, maxUnique)
           part == Partition(uniq, birthCache, clock,
                             [resultMap |-> EmptyMap, needFetch |-> <<>>])
           cl0 == [IdleCall EXCEPT !.pc = "pool", !.addresses = addresses,
                                   !.maxUnique = maxUnique, !.now = clock,
                                   !.uniq = uniq, !.needFetch = part.needFetch,
                                   !.resultMap = part.resultMap,
                                   !.cache0 = birthCache]
           s == StartWorkers(birthCache, cl0, [w \in Workers |-> IdleChain], 1)
       IN /\ birthCache' = s.cache
          /\ call' = [call EXCEPT ![c] = s.cl]
          /\ worker' = [worker EXCEPT ![c] = s.wks]
          /\ retry' = [retry EXCEPT ![c] = IdleChain]
    /\ NoFlushCall

\* The call on its own; GET calls it once `await ensureCacheLoaded()` has
\* returned.
enrichCreatedAt(c, addresses, maxUnique) ==
    /\ enrichCreatedAtBegin(c, addresses, maxUnique)
    /\ UNCHANGED <<notBirth, clock, ticks, cacheLoaded, loadPending, writes, disk>>

\* One call, with any address list and cap within the bounds.
StartCall ==
  \E addresses \in SeqsUpTo(Wallets, MaxAddrs), maxUnique \in 0..MaxCap :
    enrichCreatedAt(1, addresses, maxUnique)

\* The primary provider answers.
V2Return(c, w) ==
  /\ worker[c][w].pc = "v2"
  /\ \E resp \in V2Answers("pool", worker[c][w].addr) :
    /\ LET tx == blockscoutV2CreationTxHash(resp) IN
       worker' = [worker EXCEPT ![c][w] =
                    IF tx = NULL THEN [@ EXCEPT !.pc = "legacy"]
                    ELSE [@ EXCEPT !.pc = "tx", !.tx = tx]]
    /\ NoFlushCall
    /\ UNCHANGED <<notBirth, clock, ticks, birthCache, cacheLoaded, loadPending, writes,
                   disk, call, retry>>

\* The legacy provider answers; without a hash: flush, sleep, continue.
LegacyReturn(c, w) ==
  /\ worker[c][w].pc = "legacy"
  /\ \E resp \in LegacyAnswers("pool", worker[c][w].addr) :
    /\ LET tx == blockscoutLegacyCreationTxHash(resp) IN
       IF tx = NULL
         THEN /\ worker' = [worker EXCEPT ![c][w] = [@ EXCEPT !.pc = "sleep"]]
              /\ call' = [call EXCEPT ![c].failedPool = @ \cup {worker[c][w].addr}]
              /\ scheduleFlushCacheToDisk
         ELSE /\ worker' = [worker EXCEPT ![c][w] = [@ EXCEPT !.pc = "tx", !.tx = tx]]
              /\ UNCHANGED call
              /\ NoFlushCall
    /\ UNCHANGED <<notBirth, clock, ticks, birthCache, cacheLoaded, loadPending, writes,
                   disk, retry>>

\* The worker's tail once getCreatedAtISOFromCreationTx has returned.
WorkerStore(c, w, createdAtIso) ==
  LET addr == worker[c][w].addr IN
  /\ birthCache' = CacheWrite(birthCache, addr, createdAtIso, call[c].now)
  /\ call' = [call EXCEPT ![c].resultMap = MapSet(@, addr, createdAtIso),
                          ![c].wrote = @ \cup {addr},
                          ![c].failedPool =
                             IF createdAtIso = NULL THEN @ \cup {addr} ELSE @]
  /\ worker' = [worker EXCEPT ![c][w] = [@ EXCEPT !.pc = "sleep"]]
  /\ scheduleFlushCacheToDisk

\* eth_getTransactionByHash answers.
TxReturn(c, w) ==
  /\ worker[c][w].pc = "tx"
  /\ \E resp \in TxAnswers("pool", worker[c][w].addr) :
    /\ IF TxBlockNumber(resp) = NULL
         THEN WorkerStore(c, w, NULL)
         ELSE /\ worker' = [worker EXCEPT ![c][w] =
                              [@ EXCEPT !.pc = "block", !.blk = TxBlockNumber(resp)]]
              /\ UNCHANGED <<birthCache, call>>
              /\ NoFlushCall
    /\ UNCHANGED <<notBirth, clock, ticks, cacheLoaded, loadPending, writes, disk, retry>>

\* eth_getBlockByNumber answers.
BlockReturn(c, w) ==
  /\ worker[c][w].pc = "block"
  /\ \E resp \in BlockAnswers("pool", worker[c][w].addr) :
    /\ WorkerStore(c, w, BlockCreatedAtIso(resp))
    /\ UNCHANGED <<notBirth, clock, ticks, cacheLoaded, loadPending, writes, disk, retry>>

\* sleep(250) ends and the worker takes the next item, or leaves the loop.
SleepDone(c, w) ==
  /\ worker[c][w].pc = "sleep"
  /\ LET s == WorkerLoop(birthCache, call[c]) IN
     /\ birthCache' = s.cache
     /\ call' = [call EXCEPT ![c] = s.cl]
     /\ worker' = [worker EXCEPT ![c][w] = s.wk]
  /\ NoFlushCall
  /\ UNCHANGED <<notBirth, clock, ticks, cacheLoaded, loadPending, writes, disk, retry>>

\* missing = needFetch.filter((a) => (resultMap.get(a) ?? null) === null)
Missing(cl) ==
  FilterIn(cl.needFetch, {a \in Range(cl.needFetch) : MapGetOrNull(cl.resultMap, a) = NULL})

\* The final scheduleFlushCacheToDisk() and return resultMap.
ReturnCall(c) ==
  /\ call' = [call EXCEPT ![c].pc = "done"]
  /\ retry' = [retry EXCEPT ![c] = DoneChain]
  /\ scheduleFlushCacheToDisk

\* Promise.all resolves: both workers have left their loops.  The retry
\* pass starts with the primary lookup of its first address.
PoolJoin(c) ==
  /\ call[c].pc = "pool"
  /\ \A w \in Workers : worker[c][w].pc = "done"
  /\ LET missing == Missing(call[c])
         retryList == SliceTo(missing, RETRY_CAP)
     IN IF Len(missing) > 0
          THEN /\ call' = [call EXCEPT ![c].pc = "retry", ![c].retryList = retryList,
                                       ![c].ri = 1,
                                       ![c].looked = @ \cup {retryList[1]},
                                       ![c].tries = Append(@, <<"retry", retryList[1]>>)]
               /\ retry' = [retry EXCEPT ![c] = Chain("v2", retryList[1], NULL, NULL)]
               /\ NoFlushCall
          ELSE ReturnCall(c)
  /\ UNCHANGED <<notBirth, clock, ticks, birthCache, cacheLoaded, loadPending, writes, disk,
                 worker>>

RetryV2Return(c) ==
  /\ retry[c].pc = "v2"
  /\ \E resp \in V2Answers("retry", retry[c].addr) :
    /\ LET tx == blockscoutV2CreationTxHash(resp) IN
       retry' = [retry EXCEPT ![c] =
                   IF tx = NULL THEN [@ EXCEPT !.pc = "legacy"]
                   ELSE [@ EXCEPT !.pc = "tx", !.tx = tx]]
    /\ NoFlushCall
    /\ UNCHANGED <<notBirth, clock, ticks, birthCache, cacheLoaded, loadPending, writes,
                   disk, call, worker>>

\* Without a hash the retry pass sleeps and continues: nothing is written.
RetryLegacyReturn(c) ==
  /\ retry[c].pc = "legacy"
  /\ \E resp \in LegacyAnswers("retry", retry[c].addr) :
    /\ LET tx == blockscoutLegacyCreationTxHash(resp) IN
       IF tx = NULL
         THEN /\ retry' = [retry EXCEPT ![c] = [@ EXCEPT !.pc = "sleep"]]
              /\ call' = [call EXCEPT ![c].failedRetry = @ \cup {retry[c].addr}]
         ELSE /\ retry' = [retry EXCEPT ![c] = [@ EXCEPT !.pc = "tx", !.tx = tx]]
              /\ UNCHANGED call
    /\ NoFlushCall
    /\ UNCHANGED <<notBirth, clock, ticks, birthCache, cacheLoaded, loadPending, writes,
                   disk, worker>>

RetryStore(c, createdAtIso) ==
  LET addr == retry[c].addr IN
  /\ birthCache' = CacheWrite(birthCache, addr, createdAtIso, call[c].now)
  /\ call' = [call EXCEPT ![c].resultMap = MapSet(@, addr, createdAtIso),
                          ![c].wrote = @ \cup {addr},
                          ![c].failedRetry =
                             IF createdAtIso = NULL THEN @ \cup {addr} ELSE @]
  /\ retry' = [retry EXCEPT ![c] = [@ EXCEPT !.pc = "sleep"]]
  /\ scheduleFlushCacheToDisk

RetryTxReturn(c) ==
  /\ retry[c].pc = "tx"
  /\ \E resp \in TxAnswers("retry", retry[c].addr) :
    /\ IF TxBlockNumber(resp) = NULL
         THEN RetryStore(c, NULL)
         ELSE /\ retry' = [retry EXCEPT ![c] =
                             [@ EXCEPT !.pc = "block", !.blk = TxBlockNumber(resp)]]
              /\ UNCHANGED <<birthCache, call>>
              /\ NoFlushCall
    /\ UNCHANGED <<notBirth, clock, ticks, cacheLoaded, loadPending, writes, disk, worker>>

RetryBlockReturn(c) ==
  /\ retry[c].pc = "block"
  /\ \E resp \in BlockAnswers("retry", retry[c].addr) :
    /\ RetryStore(c, BlockCreatedAtIso(resp))
    /\ UNCHANGED <<notBirth, clock, ticks, cacheLoaded, loadPending, writes, disk, worker>>

\* sleep(300) ends: the next address of retryList, or the return.
RetrySleepDone(c) ==
  /\ retry[c].pc = "sleep"
  /\ IF call[c].ri < Len(call[c].retryList)
       THEN LET addr == call[c].retryList[call[c].ri + 1] IN
            /\ call' = [call EXCEPT ![c].ri = @ + 1, ![c].looked = @ \cup {addr},
                                    ![c].tries = Append(@, <<"retry", addr>>)]
            /\ retry' = [retry EXCEPT ![c] = Chain("v2", addr, NULL, NULL)]
            /\ NoFlushCall
       ELSE ReturnCall(c)
  /\ UNCHANGED <<notBirth, clock, ticks, birthCache, cacheLoaded, loadPending, writes, disk,
                 worker>>

\* ------------------------------------------------------------------ metadata service

CatCalls == {1, 2}
TagWorkers == 1..CONCURRENCY_TAGS

\* Condition ids as they arrive, and a list wider than the tag pool.
MarketIds == {"0xM1", "0xm1", "0xm2"}
WideIds == <<"0xm1", "0xm2", "0xm3", "0xm4", "0xm5">>

GammaMarket(cid, events, eventId) ==
  [conditionId |-> cid, events |-> events, eventId |-> eventId]

\* The event the service files a market under.
EventOf(cid) ==
  CASE cid = "0xm1" -> "e1" [] cid = "0xm2" -> "e2" [] cid = "0xm3" -> "e3"
    [] cid = "0xm4" -> "e4" [] OTHER -> "e5"

\* The service answers with the condition id in its own spelling.
Spelled(cid) == IF cid = "0xm1" THEN "0xM1" ELSE cid

\* Bodies of GET /markets for a batch: every market under its own event
\* (events[0].id), every market under one event (eventId), or a body with
\* gaps: a record without an event, a market left out, a record without a
\* condition id.
EachOwnEvent(batch) ==
  [i \in 1..Len(batch) |-> GammaMarket(Spelled(batch[i]), <<EventOf(batch[i])>>, NULL)]

AllOneEvent(batch) ==
  [i \in 1..Len(batch) |-> GammaMarket(batch[i], <<>>, "e1")]

WithGaps(batch) ==
  <<GammaMarket(batch[1], <<>>, NULL), GammaMarket(NULL, <<"e3">>, NULL)>>
    \o [i \in 1..(Len(batch) - 2) |-> GammaMarket(batch[i + 2], <<NULL>>, "e3")]

MarketsResponses(batch) ==
  {[kind |-> "throw", body |-> <<>>], [kind |-> "notok", body |-> <<>>],
   [kind |-> "badjson", body |-> <<>>], [kind |-> "object", body |-> <<>>]}
    \cup {[kind |-> "json", body |-> b] :
            b \in {EachOwnEvent(batch), AllOneEvent(batch), WithGaps(batch)}}

\* Fixed answer to the batched lookups: a failure kind, or one of the bodies.
MarketsShapes == {"throw", "notok", "badjson", "object", "each", "one", "gaps"}

MarketsShape(shape, batch) ==
  CASE shape = "each" -> [kind |-> "json", body |-> EachOwnEvent(batch)]
    [] shape = "one" -> [kind |-> "json", body |-> AllOneEvent(batch)]
    [] shape = "gaps" -> [kind |-> "json", body |-> WithGaps(batch)]
    [] OTHER -> [kind |-> shape, body |-> <<>>]

MarketsAnswers(batch) ==
  IF oracle.fixed THEN {MarketsShape(oracle.markets, batch)} ELSE MarketsResponses(batch)

GammaTag(slug) == [slug |-> slug]

\* The tags the service holds for an event.
TagsOfEvent(e) ==
  CASE e = "e1" -> <<GammaTag("Elections"), GammaTag("senate-2026")>>
    [] e = "e2" -> <<GammaTag("recurring"), GammaTag("Weekly")>>
    [] e = "e3" -> <<GammaTag(NULL), GammaTag(" crypto "), GammaTag("bitcoin")>>
    [] OTHER -> <<>>

TagResponses(e) ==
  {[kind |-> "throw", body |-> <<>>], [kind |-> "notok", body |-> <<>>],
   [kind |-> "badjson", body |-> <<>>], [kind |-> "object", body |-> <<>>],
   [kind |-> "json", body |-> TagsOfEvent(e)]}

TagKinds == {"throw", "notok", "badjson", "object", "json"}

TagAnswers(e) ==
  IF oracle.fixed THEN {resp \in TagResponses(e) : resp.kind = oracle.tags[e]}
  ELSE TagResponses(e)

\* ------------------------------------------------------------------ categories

RECURSIVE FilterNonEmpty(_)
FilterNonEmpty(xs) ==
  IF xs = <<>> THEN <<>>
  ELSE IF Head(xs) = "" THEN FilterNonEmpty(Tail(xs))
       ELSE <<Head(xs)>> \o FilterNonEmpty(Tail(xs))

\* tags.map((t) => String(t?.slug ?? "").trim()).filter(Boolean)
SlugsOf(tags) ==
  FilterNonEmpty([i \in 1..Len(tags) |->
                    IF tags[i].slug = NULL THEN "" ELSE trim(tags[i].slug)])

\* Variant: Sports is tested before Crypto.
pickMajorCategorySportsFirst(tagSlugs) ==
  LET slugs == {toLowerCase(tagSlugs[i]) : i \in 1..Len(tagSlugs)} IN
  IF "politics" \in slugs \/ "elections" \in slugs \/ "geopolitics" \in slugs THEN "Politics"
  ELSE IF "sports" \in slugs THEN "Sports"
  ELSE IF "crypto" \in slugs THEN "Crypto"
  ELSE IF "business" \in slugs \/ "economy" \in slugs THEN "Business"
  ELSE IF "culture" \in slugs \/ "entertainment" \in slugs THEN "Culture"
  ELSE IF "science" \in slugs \/ "technology" \in slugs \/ "tech" \in slugs THEN "Tech/Science"
  ELSE "Other"

pickMajorCategory(tagSlugs) ==
  LET slugs == {toLowerCase(tagSlugs[i]) : i \in 1..Len(tagSlugs)} IN
  IF "politics" \in slugs \/ "elections" \in slugs \/ "geopolitics" \in slugs THEN "Politics"
  ELSE IF "crypto" \in slugs THEN "Crypto"
  ELSE IF "sports" \in slugs THEN "Sports"
  ELSE IF "business" \in slugs \/ "economy" \in slugs THEN "Business"
  ELSE IF "culture" \in slugs \/ "entertainment" \in slugs THEN "Culture"
  ELSE IF "science" \in slugs \/ "technology" \in slugs \/ "tech" \in slugs THEN "Tech/Science"
  ELSE "Other"

MAJOR_SLUGS ==
  {"politics", "elections", "geopolitics", "crypto", "sports", "business", "economy",
   "culture", "entertainment", "science", "technology", "tech"}

NOISE == {"recurring", "monthly", "daily", "weekly", "featured", "new"}

RECURSIVE Candidates(_)
Candidates(xs) ==
  IF xs = <<>> THEN <<>>
  ELSE LET x == toLowerCase(Head(xs)) IN
       IF x # "" /\ x \notin MAJOR_SLUGS /\ x \notin NOISE
         THEN <<x>> \o Candidates(Tail(xs))
         ELSE Candidates(Tail(xs))

\* Variant: the last candidate is taken.
pickSubcategoryLast(tagSlugs, major) ==
  LET candidates == Candidates(tagSlugs) IN
  IF candidates # <<>> THEN candidates[Len(candidates)] ELSE major

pickSubcategory(tagSlugs, major) ==
  LET candidates == Candidates(tagSlugs) IN
  IF candidates # <<>> /\ candidates[1] # "" THEN candidates[1] ELSE major

CatInfo(category, subcategory, tagSlugs) ==
  [category |-> category, subcategory |-> subcategory, tagSlugs |-> tagSlugs]

TagEntry(tags, at) == [tags |-> tags, cachedAtMs |-> at]

IdleCat ==
  [pc |-> "idle", conditionIds |-> <<>>, uniq |-> <<>>, i |-> 0, batch |-> <<>>,
   condToEventId |-> EmptyMap, eventIds |-> <<>>, idx |-> 0,
   eventIdToTagSlugs |-> EmptyLookup, condTo |-> EmptyMap,
   marketReqs |-> <<>>, marketResps |-> <<>>, tagReqs |-> <<>>,
   cache0 |-> EmptyLookup, tagsUsed |-> {}, claimed |-> <<>>]

IdleTagWorker == [pc |-> "idle", eventId |-> NULL, now |-> 0, tags |-> <<>>]
DoneTagWorker == [pc |-> "done", eventId |-> NULL, now |-> 0, tags |-> <<>>]

\* uniq.slice(i, i + CHUNK)
ChunkOf(uniq, i) == SubSeq(uniq, i + 1, Min(i + CHUNK, Len(uniq)))

\* The head of the for loop: the next batch and its batched lookup, or the
\* return of condTo.
NextChunk(cl) ==
  IF cl.i < Len(cl.uniq)
    THEN [cl EXCEPT !.pc = "markets", !.batch = ChunkOf(cl.uniq, cl.i),
                    !.marketReqs = Append(@, ChunkOf(cl.uniq, cl.i))]
    ELSE [cl EXCEPT !.pc = "done"]

\* m?.events?.[0]?.id ?? m?.eventId ?? null
EventIdOfMarket(m) ==
  IF m.events # <<>> /\ m.events[1] # NULL THEN m.events[1]
  ELSE m.eventId

\* The loop over the markets of the response: conditionId -> eventId
RECURSIVE CondToEventId(_, _)
CondToEventId(markets, acc) ==
  IF markets = <<>> THEN acc
  ELSE LET m == Head(markets)
           cid == IF m.conditionId = NULL THEN "" ELSE toLowerCase(m.conditionId)
           ev == EventIdOfMarket(m)
       IN IF cid = "" \/ ev = NULL
            THEN CondToEventId(Tail(markets), acc)
            ELSE IF MapHas(acc, cid)
                   THEN CondToEventId(Tail(markets),
                                      [acc EXCEPT ![MapIndex(acc, cid)].v = ev])
                   ELSE CondToEventId(Tail(markets), Append(acc, [k |-> cid, v |-> ev]))

MapValues(m) == [i \in 1..Len(m) |-> m[i].v]

\* Variant: the comparison with the TTL is turned around.
TagFreshInverted(cache, eventId, now) ==
  /\ LookupHas(cache, eventId)
  /\ now - cache[eventId].cachedAtMs > EVENT_TAG_TTL_MS

\* gammaFetchEventTags: the cached entry is younger than the TTL
TagFresh(cache, eventId, now) ==
  /\ LookupHas(cache, eventId)
  /\ now - cache[eventId].cachedAtMs < EVENT_TAG_TTL_MS

\* Variant: the worker reads the index after another worker has advanced it.
TagWorkerLoopSkip(cache, cl, now) ==
  IF cl.idx + 1 < Len(cl.eventIds)
    THEN LET eventId == cl.eventIds[cl.idx + 2] IN
         [cl |-> [cl EXCEPT !.idx = @ + 2, !.tagReqs = Append(@, eventId),
                            !.claimed = Append(@, cl.idx + 2)],
          wk |-> [pc |-> "fetch", eventId |-> eventId, now |-> now, tags |-> <<>>]]
    ELSE [cl |-> cl, wk |-> DoneTagWorker]

\* The head of the tag worker's while loop up to its first await: claim the
\* next index and call gammaFetchEventTags, which returns the cached tags or
\* issues the request.
TagWorkerLoop(cache, cl, now) ==
  IF cl.idx < Len(cl.eventIds)
    THEN LET eventId == cl.eventIds[cl.idx + 1] IN
         IF TagFresh(cache, eventId, now)
           THEN [cl |-> [cl EXCEPT !.idx = @ + 1, !.claimed = Append(@, cl.idx + 1)],
                 wk |-> [pc |-> "cached", eventId |-> eventId, now |-> now,
                         tags |-> cache[eventId].tags]]
           ELSE [cl |-> [cl EXCEPT !.idx = @ + 1, !.tagReqs = Append(@, eventId),
                                   !.claimed = Append(@, cl.idx + 1)],
                 wk |-> [pc |-> "fetch", eventId |-> eventId, now |-> now,
                         tags |-> <<>>]]
    ELSE [cl |-> cl, wk |-> DoneTagWorker]

RECURSIVE StartTagWorkers(_, _, _, _, _)
StartTagWorkers(cache, cl, now, wks, w) ==
  IF w > CONCURRENCY_TAGS THEN [cl |-> cl, wks |-> wks]
  ELSE LET s == TagWorkerLoop(cache, cl, now)
       IN StartTagWorkers(cache, s.cl, now, [wks EXCEPT ![w] = s.wk], w + 1)

\* enrichCategoriesByConditionIds(conditionIds) up to its first await: what
\* the call writes.
enrichCategoriesBegin(k, conditionIds) ==
  /\ cat[k].pc = "idle"
  /\ cat' = [cat EXCEPT ![k] =
               NextChunk([IdleCat EXCEPT !.conditionIds = conditionIds,
                                         !.uniq = UniqueOf(MapLower(conditionIds), <<>>),
                                         !.cache0 = eventTagCache])]

\* The call on its own.
enrichCategoriesByConditionIds(k, conditionIds) ==
  /\ enrichCategoriesBegin(k, conditionIds)
  /\ UNCHANGED <<birthVars, dedupVars, restVars, eventTagCache, catWorker>>

\* gammaFetchMarketsByConditionIds returns or rejects.  A rejection is not
\* caught in enrichCategoriesByConditionIds.  cl0 is the call when the tag
\* workers start.
MarketsReturn(k) ==
  /\ cat[k].pc = "markets"
  /\ \E resp \in MarketsAnswers(cat[k].batch) :
    /\ IF resp.kind \in {"throw", "badjson"}
         THEN /\ cat' = [cat EXCEPT ![k].pc = "threw"]
              /\ UNCHANGED catWorker
         ELSE LET markets == IF resp.kind = "json" THEN resp.body ELSE <<>>
                  condToEventId == CondToEventId(markets, EmptyMap)
              IN \E cl0 \in {[cat[k] EXCEPT !.pc = "tags",
                                            !.condToEventId = condToEventId,
                                            !.eventIds = UniqueOf(MapValues(condToEventId), <<>>),
                                            !.idx = 0,
                                            !.claimed = <<>>,
                                            !.eventIdToTagSlugs = EmptyLookup,
                                            !.marketResps = Append(@, markets)]} :
                   LET s == StartTagWorkers(eventTagCache, cl0, clock,
                                            [w \in TagWorkers |-> IdleTagWorker], 1)
                   IN /\ cat' = [cat EXCEPT ![k] = s.cl]
                      /\ catWorker' = [catWorker EXCEPT ![k] = s.wks]
    /\ UNCHANGED <<birthVars, dedupVars, restVars, eventTagCache>>

\* The await of gammaFetchEventTags resumes with the cached tags.
TagCachedResume(k, w) ==
  /\ catWorker[k][w].pc = "cached"
  /\ cat' = [cat EXCEPT ![k].eventIdToTagSlugs =
                            LookupSet(@, catWorker[k][w].eventId, SlugsOf(catWorker[k][w].tags)),
                          ![k].tagsUsed =
                            @ \cup {<<catWorker[k][w].eventId, SlugsOf(catWorker[k][w].tags)>>}]
  /\ catWorker' = [catWorker EXCEPT ![k][w] = [@ EXCEPT !.pc = "sleep", !.tags = <<>>]]
  /\ UNCHANGED <<birthVars, dedupVars, restVars, eventTagCache>>

\* The tags request comes back: gammaFetchEventTags stores and returns the
\* tags, or rejects into the worker's catch.
TagFetchReturn(k, w) ==
  /\ catWorker[k][w].pc = "fetch"
  /\ \E resp \in TagAnswers(catWorker[k][w].eventId) :
    LET eventId == catWorker[k][w].eventId
        tags == IF resp.kind = "json" THEN resp.body ELSE <<>>
    IN /\ IF resp.kind \in {"throw", "badjson"}
            THEN /\ cat' = [cat EXCEPT ![k].eventIdToTagSlugs = LookupSet(@, eventId, <<>>),
                                         ![k].tagsUsed = @ \cup {<<eventId, <<>>>>}]
                 /\ UNCHANGED eventTagCache
            ELSE /\ eventTagCache' =
                      LookupSet(eventTagCache, eventId, TagEntry(tags, catWorker[k][w].now))
                 /\ cat' = [cat EXCEPT ![k].eventIdToTagSlugs =
                                           LookupSet(@, eventId, SlugsOf(tags)),
                                         ![k].tagsUsed = @ \cup {<<eventId, SlugsOf(tags)>>}]
       /\ catWorker' = [catWorker EXCEPT ![k][w] = [@ EXCEPT !.pc = "sleep"]]
       /\ UNCHANGED <<birthVars, dedupVars, restVars>>

\* sleep(80) ends.
TagSleepDone(k, w) ==
  /\ catWorker[k][w].pc = "sleep"
  /\ LET s == TagWorkerLoop(eventTagCache, cat[k], clock) IN
     /\ cat' = [cat EXCEPT ![k] = s.cl]
     /\ catWorker' = [catWorker EXCEPT ![k][w] = s.wk]
  /\ UNCHANGED <<birthVars, dedupVars, restVars, eventTagCache>>

\* Variant: the backfill leaves out the ids that have no event.
RECURSIVE BackfillSkipUncategorized(_, _, _, _)
BackfillSkipUncategorized(batch, condToEventId, eventIdToTagSlugs, condTo) ==
  IF batch = <<>> THEN condTo
  ELSE LET cid == Head(batch)
           tagSlugs == IF LookupHas(eventIdToTagSlugs, MapGetOrNull(condToEventId, cid))
                         THEN eventIdToTagSlugs[MapGet(condToEventId, cid)]
                         ELSE <<>>
           major == pickMajorCategory(tagSlugs)
           sub == pickSubcategory(tagSlugs, major)
           info == [k |-> cid, v |-> CatInfo(major, sub, tagSlugs)]
       IN IF ~MapHas(condToEventId, cid)
            THEN BackfillSkipUncategorized(Tail(batch), condToEventId, eventIdToTagSlugs, condTo)
            ELSE IF MapHas(condTo, cid)
                   THEN BackfillSkipUncategorized(Tail(batch), condToEventId, eventIdToTagSlugs,
                                                  [condTo EXCEPT ![MapIndex(condTo, cid)] = info])
                   ELSE BackfillSkipUncategorized(Tail(batch), condToEventId, eventIdToTagSlugs,
                                                  Append(condTo, info))

\* The backfill loop over the batch.
RECURSIVE Backfill(_, _, _, _)
Backfill(batch, condToEventId, eventIdToTagSlugs, condTo) ==
  IF batch = <<>> THEN condTo
  ELSE LET cid == Head(batch)
           tagSlugs == IF MapHas(condToEventId, cid) /\ MapGet(condToEventId, cid) # ""
                         THEN (IF LookupHas(eventIdToTagSlugs, MapGet(condToEventId, cid))
                                 THEN eventIdToTagSlugs[MapGet(condToEventId, cid)]
                                 ELSE <<>>)
                         ELSE <<>>
           major == pickMajorCategory(tagSlugs)
           sub == pickSubcategory(tagSlugs, major)
           info == [k |-> cid, v |-> CatInfo(major, sub, tagSlugs)]
       IN IF MapHas(condTo, cid)
            THEN Backfill(Tail(batch), condToEventId, eventIdToTagSlugs,
                          [condTo EXCEPT ![MapIndex(condTo, cid)] = info])
            ELSE Backfill(Tail(batch), condToEventId, eventIdToTagSlugs,
                          Append(condTo, info))

\* Promise.all of the tag workers resolves: backfill, then the next chunk.
TagsJoin(k) ==
  /\ cat[k].pc = "tags"
  /\ \A w \in TagWorkers : catWorker[k][w].pc = "done"
  /\ cat' = [cat EXCEPT ![k] =
               NextChunk([@ EXCEPT !.condTo = Backfill(cat[k].batch, cat[k].condToEventId,
                                                       cat[k].eventIdToTagSlugs, @),
                                   !.i = @ + CHUNK])]
  /\ UNCHANGED <<birthVars, dedupVars, restVars, eventTagCache, catWorker>>

\* ------------------------------------------------------------------ SpecBirths

\* No fixed answers, no request, a fresh page.
RestIdle ==
  /\ oracle = FreeOracle
  /\ req = IdleReq
  /\ client = IdleClient
  /\ pickIn = <<>>
  /\ pickOut = NoPick
  /\ lastFlush = NoFlush

BirthsIdle ==
  /\ clock = T0
  /\ ticks = 0
  /\ birthCache = EmptyMap
  /\ cacheLoaded = FALSE
  /\ loadPending = FALSE
  /\ flushTimer = <<>>
  /\ pendingFlushes = <<>>
  /\ writes = <<>>
  /\ call = [c \in CallSlots |-> IdleCall]
  /\ worker = [c \in CallSlots |-> [w \in Workers |-> IdleChain]]
  /\ retry = [c \in CallSlots |-> IdleChain]

DedupIdle ==
  /\ trades = <<>>
  /\ di = 0
  /\ seen = {}
  /\ uniqTrades = <<>>

\* Process start: nothing loaded, nothing cached, no request yet.
Init ==
  /\ BirthsIdle
  /\ disk \in DiskInits
  /\ eventTagCache = EmptyLookup
  /\ cat = [k \in CatCalls |-> IdleCat]
  /\ catWorker = [k \in CatCalls |-> [w \in TagWorkers |-> IdleTagWorker]]
  /\ DedupIdle
  /\ RestIdle

NextBirths ==
  \/ Tick
  \/ LoadBegin
  \/ LoadEnd
  \/ FlushFire
  \/ WriteLand
  \/ WriteFail
  \/ StartCall
  \/ \E c \in CallSlots, w \in Workers : V2Return(c, w)
  \/ \E c \in CallSlots, w \in Workers : LegacyReturn(c, w)
  \/ \E c \in CallSlots, w \in Workers : TxReturn(c, w)
  \/ \E c \in CallSlots, w \in Workers : BlockReturn(c, w)
  \/ \E c \in CallSlots, w \in Workers : SleepDone(c, w)
  \/ \E c \in CallSlots : PoolJoin(c)
  \/ \E c \in CallSlots : RetryV2Return(c)
  \/ \E c \in CallSlots : RetryLegacyReturn(c)
  \/ \E c \in CallSlots : RetryTxReturn(c)
  \/ \E c \in CallSlots : RetryBlockReturn(c)
  \/ \E c \in CallSlots : RetrySleepDone(c)

SpecBirths == Init /\ [][NextBirths]_vars

\* ------------------------------------------------------------------ SpecCats

\* Time passes: up to the last instant an entry written at T0 is fresh, or
\* to the first instant it is stale.
CatTick ==
  \E d \in {EVENT_TAG_TTL_MS - 1, EVENT_TAG_TTL_MS} :
    /\ ticks < MaxTicks
    /\ ticks' = ticks + 1
    /\ clock' = clock + d
    /\ UNCHANGED <<birthCache, cacheLoaded, loadPending, flushTimer, pendingFlushes,
                   writes, disk, call, worker, retry, catVars, dedupVars, restVars>>

\* A first call, with any condition id list within the bounds or the wide one.
StartCats ==
  \E conditionIds \in SeqsUpTo(MarketIds, MaxIds) \cup {WideIds} :
    enrichCategoriesByConditionIds(1, conditionIds)

\* The same list (a list within the bound) again, once the first call has
\* returned.
StartAgain ==
  /\ cat[1].pc = "done"
  /\ Len(cat[1].conditionIds) <= MaxIds
  /\ enrichCategoriesByConditionIds(2, cat[1].conditionIds)

\* The category resolver does not read the snapshot file.
InitCats == Init /\ disk = File("ENOENT", <<>>)

NextCats ==
  \/ CatTick
  \/ StartCats
  \/ StartAgain
  \/ \E k \in CatCalls : MarketsReturn(k)
  \/ \E k \in CatCalls, w \in TagWorkers : TagCachedResume(k, w)
  \/ \E k \in CatCalls, w \in TagWorkers : TagFetchReturn(k, w)
  \/ \E k \in CatCalls, w \in TagWorkers : TagSleepDone(k, w)
  \/ \E k \in CatCalls : TagsJoin(k)

SpecCats == InitCats /\ [][NextCats]_vars

\* ------------------------------------------------------------------ deduplication

PMTrade(wallet, ts, side, size, price, cid, hash) ==
  [proxyWallet |-> wallet, timestamp |-> ts, side |-> side, size |-> size,
   price |-> price, conditionId |-> cid, transactionHash |-> hash]

\* The trades a feed page is made of: a base trade, trades differing from it
\* in one field, trades whose digits shift between neighbouring fields, and
\* trades with a transaction hash (NULL: the field is absent).
TradePool ==
  {PMTrade("0xa", 1, "BUY", 1, 1, "0xm1", NULL),
   PMTrade("0xb", 1, "BUY", 1, 1, "0xm1", NULL),
   PMTrade("0xa", 11, "BUY", 1, 1, "0xm1", NULL),
   PMTrade("0xa", 1, "SELL", 1, 1, "0xm1", NULL),
   PMTrade("0xa", 1, "BUY", 11, 1, "0xm1", NULL),
   PMTrade("0xa", 1, "BUY", 1, 11, "0xm1", NULL),
   PMTrade("0xa", 1, "BUY", 1, 1, "0xm2", NULL),
   PMTrade("0xa", 1, "BUY", 1, 1, "0xm1", ""),
   PMTrade("0xa", 1, "BUY", 1, 1, "0xm1", "0xh1"),
   PMTrade("0xb", 11, "SELL", 1, 1, "0xm2", "0xh1"),
   PMTrade("0xa", 1, "BUY", 1, 1, "0xm1", "0xh2")}

\* if (t.transactionHash): the field is there and not the empty string
HasHash(t) == t.transactionHash # NULL /\ t.transactionHash # ""

tradeKeyNoSeparators(t) ==
  IF HasHash(t) THEN "tx:" \o t.transactionHash
  ELSE "f:" \o t.proxyWallet \o ToString(t.timestamp) \o t.side
         \o ToString(t.size) \o ToString(t.price) \o t.conditionId

tradeKey(t) ==
  IF HasHash(t) THEN "tx:" \o t.transactionHash
  ELSE "f:" \o t.proxyWallet \o "|" \o ToString(t.timestamp) \o "|" \o t.side \o "|"
         \o ToString(t.size) \o "|" \o ToString(t.price) \o "|" \o t.conditionId

\* One iteration of GET's loop over the trades.
DedupStep ==
  /\ di < Len(trades)
  /\ LET t == trades[di + 1]
         key == tradeKey(t)
     IN IF key \in seen
          THEN UNCHANGED <<seen, uniqTrades>>
          ELSE /\ seen' = seen \cup {key}
               /\ uniqTrades' = Append(uniqTrades, t)
  /\ di' = di + 1
  /\ UNCHANGED <<trades, birthVars, catVars, restVars>>

\* GET has received a trade list.
InitDedup ==
  /\ trades \in SeqsUpTo(TradePool, MaxTrades)
  /\ di = 0
  /\ seen = {}
  /\ uniqTrades = <<>>
  /\ BirthsIdle
  /\ disk = File("ENOENT", <<>>)
  /\ eventTagCache = EmptyLookup
  /\ cat = [k \in CatCalls |-> IdleCat]
  /\ catWorker = [k \in CatCalls |-> [w \in TagWorkers |-> IdleTagWorker]]
  /\ RestIdle

NextDedup == DedupStep

SpecDedup == InitDedup /\ [][NextDedup]_vars

\* ------------------------------------------------------------------ SpecResolvers

\* Each behaviour runs one resolver: a wallet-birth call, or a category call
\* and its repetition.  The two pools share no variable, so each pool's
\* states are those of its resolver alone; the category resolver does not
\* read the snapshot file and starts before any load.
StartBirthsAlone == StartCall

StartCatsAlone ==
  /\ ~cacheLoaded
  /\ disk.kind = "ENOENT"
  /\ StartCats

CatsQuiet == \A k \in CatCalls : cat[k].pc = "idle"

LoadBeginAlone == CatsQuiet /\ LoadBegin

NextResolvers ==
  \/ Tick
  \/ LoadBeginAlone
  \/ LoadEnd
  \/ FlushFire
  \/ WriteLand
  \/ WriteFail
  \/ StartBirthsAlone
  \/ \E c \in CallSlots, w \in Workers : V2Return(c, w)
  \/ \E c \in CallSlots, w \in Workers : LegacyReturn(c, w)
  \/ \E c \in CallSlots, w \in Workers : TxReturn(c, w)
  \/ \E c \in CallSlots, w \in Workers : BlockReturn(c, w)
  \/ \E c \in CallSlots, w \in Workers : SleepDone(c, w)
  \/ \E c \in CallSlots : PoolJoin(c)
  \/ \E c \in CallSlots : RetryV2Return(c)
  \/ \E c \in CallSlots : RetryLegacyReturn(c)
  \/ \E c \in CallSlots : RetryTxReturn(c)
  \/ \E c \in CallSlots : RetryBlockReturn(c)
  \/ \E c \in CallSlots : RetrySleepDone(c)
  \/ StartCatsAlone
  \/ StartAgain
  \/ \E k \in CatCalls : MarketsReturn(k)
  \/ \E k \in CatCalls, w \in TagWorkers : TagCachedResume(k, w)
  \/ \E k \in CatCalls, w \in TagWorkers : TagFetchReturn(k, w)
  \/ \E k \in CatCalls, w \in TagWorkers : TagSleepDone(k, w)
  \/ \E k \in CatCalls : TagsJoin(k)

SpecResolvers == Init /\ [][NextResolvers]_vars

\* ------------------------------------------------------------------ GET

\* The cap GET hands to enrichCreatedAt.
GET_MAX_UNIQUE == 100

\* GET's loop over the trades, run to its end.
RECURSIVE DedupLoop(_, _, _)
DedupLoop(ts, keys, kept) ==
  IF ts = <<>> THEN [seen |-> keys, uniqTrades |-> kept]
  ELSE IF tradeKey(Head(ts)) \in keys
         THEN DedupLoop(Tail(ts), keys, kept)
         ELSE DedupLoop(Tail(ts), keys \cup {tradeKey(Head(ts))}, Append(kept, Head(ts)))

\* The id of the alert made of the trade at index i (from 0).
AlertId(t, i) ==
  IF HasHash(t) THEN t.transactionHash \o "-" \o ToString(i)
  ELSE t.proxyWallet \o "-" \o ToString(t.timestamp) \o "-" \o ToString(i)

\* rawAlerts: the alert of each kept trade, the enrichment not yet filled in.
RawAlert(t, i) ==
  [id |-> AlertId(t, i), walletAddress |-> t.proxyWallet, side |-> t.side,
   note |-> "cond:" \o t.conditionId, createdAt |-> NULL,
   category |-> "Other", subcategory |-> "Other", tagSlugs |-> <<>>]

\* Variant: the wallet map is read under the address as it arrived.
EnrichedAsArrived(uniq, createdMap, condToCat) ==
  [i \in 1..Len(uniq) |->
     LET a == RawAlert(uniq[i], i - 1)
         cid == toLowerCase(uniq[i].conditionId)
     IN IF MapHas(condToCat, cid)
          THEN [a EXCEPT !.createdAt = MapGetOrNull(createdMap, a.walletAddress),
                         !.category = MapGet(condToCat, cid).category,
                         !.subcategory = MapGet(condToCat, cid).subcategory,
                         !.tagSlugs = MapGet(condToCat, cid).tagSlugs]
          ELSE [a EXCEPT !.createdAt = MapGetOrNull(createdMap, a.walletAddress)]]

\* rawAlerts.map((a, idx) => ...): each alert with what the two maps hold.
Enriched(uniq, createdMap, condToCat) ==
  [i \in 1..Len(uniq) |->
     LET a == RawAlert(uniq[i], i - 1)
         cid == toLowerCase(uniq[i].conditionId)
     IN IF MapHas(condToCat, cid)
          THEN [a EXCEPT !.createdAt = MapGetOrNull(createdMap, toLowerCase(a.walletAddress)),
                         !.category = MapGet(condToCat, cid).category,
                         !.subcategory = MapGet(condToCat, cid).subcategory,
                         !.tagSlugs = MapGet(condToCat, cid).tagSlugs]
          ELSE [a EXCEPT !.createdAt = MapGetOrNull(createdMap, toLowerCase(a.walletAddress))]]

Respond(status, out) == [pc |-> "responded", status |-> status, out |-> out]

\* What the trade feed can come back with: a JSON array (the list in
\* trades), a non-OK answer, or a body that is not JSON.
FeedKinds == {"json", "notok", "badjson"}
FeedAnswers == IF oracle.fixed THEN {oracle.feed} ELSE FeedKinds

\* GET up to its await of ensureCacheLoaded, which starts the load if no
\* request has started it.
GetBegin ==
  /\ req.pc = "idle"
  /\ IF cacheLoaded
       THEN /\ req' = [req EXCEPT !.pc = "feed"]
            /\ UNCHANGED <<cacheLoaded, loadPending>>
       ELSE /\ req' = [req EXCEPT !.pc = "load"]
            /\ cacheLoaded' = TRUE
            /\ loadPending' = TRUE
  /\ UNCHANGED <<clock, ticks, birthCache, flushTimer, pendingFlushes, writes, disk,
                 call, worker, retry, catVars, dedupVars, oracle, client,
                 pickIn, pickOut, lastFlush>>

\* ensureCacheLoaded has returned: GET requests the trades.
GetLoaded ==
  /\ req.pc = "load"
  /\ ~loadPending
  /\ req' = [req EXCEPT !.pc = "feed"]
  /\ UNCHANGED <<birthVars, catVars, dedupVars, oracle, client, pickIn, pickOut, lastFlush>>

\* The trade feed answers.  GET answers 502, 500 or [] right away, or
\* removes the duplicates, builds the alerts and calls the two resolvers, in
\* this order, before it awaits both.
FeedReturn ==
  /\ req.pc = "feed"
  /\ \E kind \in FeedAnswers :
       IF kind # "json" \/ trades = <<>>
         THEN /\ req' = Respond(IF kind = "notok" THEN 502
                                ELSE IF kind = "badjson" THEN 500 ELSE 200, <<>>)
              /\ UNCHANGED <<birthVars, catVars, di, seen, uniqTrades>>
         ELSE LET d == DedupLoop(trades, {}, <<>>) IN
              /\ di' = Len(trades)
              /\ seen' = d.seen
              /\ uniqTrades' = d.uniqTrades
              /\ enrichCreatedAtBegin(
                   1, [i \in 1..Len(d.uniqTrades) |-> d.uniqTrades[i].proxyWallet],
                   GET_MAX_UNIQUE)
              /\ enrichCategoriesBegin(
                   1, [i \in 1..Len(d.uniqTrades) |-> d.uniqTrades[i].conditionId])
              /\ req' = [req EXCEPT !.pc = "enrich"]
              /\ UNCHANGED <<clock, ticks, cacheLoaded, loadPending, writes, disk,
                             eventTagCache, catWorker>>
  /\ UNCHANGED <<trades, oracle, client, pickIn, pickOut, lastFlush>>

\* Variant: GET goes on as soon as the wallet map is there.
JoinReadyRace == call[1].pc = "done" /\ cat[1].pc # "threw"

\* Promise.all has both maps.
JoinReady == call[1].pc = "done" /\ cat[1].pc = "done"

\* Both resolvers have returned: GET joins and answers.
GetJoin ==
  /\ req.pc = "enrich"
  /\ JoinReady
  /\ req' = Respond(200, Enriched(uniqTrades, call[1].resultMap, cat[1].condTo))
  /\ UNCHANGED <<birthVars, catVars, dedupVars, oracle, client, pickIn, pickOut, lastFlush>>

\* The category resolver has rejected: Promise.all rejects and GET's catch
\* answers 500.
GetCrash ==
  /\ req.pc = "enrich"
  /\ cat[1].pc = "threw"
  /\ req' = Respond(500, <<>>)
  /\ UNCHANGED <<birthVars, catVars, dedupVars, oracle, client, pickIn, pickOut, lastFlush>>

\* ------------------------------------------------------------------ SpecGet

\* One request, with every external answer fixed at the start of the
\* behaviour: the behaviours of one start differ in the order of the steps
\* only.
Lowered == {"0xa", "0xb"}
Events == {"e1", "e2", "e3", "e4", "e5"}

ChainPlan(poolA, poolB, retryA, retryB) ==
  [pool |-> [a \in Lowered |-> IF a = "0xa" THEN poolA ELSE poolB],
   retry |-> [a \in Lowered |-> IF a = "0xa" THEN retryA ELSE retryB]]

ChainPlans ==
  {ChainPlan("iso", "nohash", "nohash", "iso"),
   ChainPlan("nullchain", "iso", "nullchain", "nohash"),
   ChainPlan("nohash", "nohash", "iso", "nohash")}

TagPlans ==
  {[e \in Events |-> "json"], [e \in Events |-> IF e = "e1" THEN "throw" ELSE "json"]}

FixedOracle(feed, chain, markets, tags) ==
  [fixed |-> TRUE, feed |-> feed, chain |-> chain, markets |-> markets, tags |-> tags]

GetOracles ==
  {FixedOracle("json", ch, m, tg) :
     ch \in ChainPlans, m \in {"each", "one", "throw"}, tg \in TagPlans}
    \cup {FixedOracle(f, ChainPlan("iso", "iso", "iso", "iso"), "each",
                      [e \in Events |-> "json"]) : f \in {"notok", "badjson"}}

\* The trade lists of the feed: none; a wallet in two spellings of its
\* market and a repeated transaction; three trades of two wallets in two
\* markets.
GetTradeLists ==
  {<<>>,
   <<PMTrade("0xA", 1, "BUY", 1, 1, "0xM1", "0xh1"),
     PMTrade("0xb", 1, "SELL", 1, 1, "0xm2", NULL),
     PMTrade("0xA", 11, "BUY", 1, 1, "0xM1", "0xh1")>>,
   <<PMTrade("0xb", 1, "BUY", 1, 1, "0xm3", NULL),
     PMTrade("0xa", 1, "BUY", 1, 1, "0xm1", NULL),
     PMTrade("0xb", 1, "SELL", 1, 1, "0xm1", "0xh2")>>}

\* The tag cache an earlier request may have left: tags of event e1 that the
\* service has changed since.
WarmTags == LookupSet(EmptyLookup, "e1", TagEntry(<<GammaTag("sports")>>, T0))

InitGet ==
  /\ BirthsIdle
  /\ disk \in {File("ENOENT", <<>>),
               File("json", <<[k |-> "0xa", v |-> BirthEntry(ISO1, 1)],
                              [k |-> "0xb", v |-> BirthEntry(NULL, 0)]>>)}
  /\ eventTagCache \in {EmptyLookup, WarmTags}
  /\ cat = [k \in CatCalls |-> IdleCat]
  /\ catWorker = [k \in CatCalls |-> [w \in TagWorkers |-> IdleTagWorker]]
  /\ trades \in GetTradeLists
  /\ di = 0
  /\ seen = {}
  /\ uniqTrades = <<>>
  /\ oracle \in GetOracles
  /\ req = IdleReq
  /\ client = IdleClient
  /\ pickIn = <<>>
  /\ pickOut = NoPick
  /\ lastFlush = NoFlush

NextGet ==
  \/ GetBegin
  \/ LoadEnd
  \/ GetLoaded
  \/ FeedReturn
  \/ \E c \in CallSlots, w \in Workers : V2Return(c, w)
  \/ \E c \in CallSlots, w \in Workers : LegacyReturn(c, w)
  \/ \E c \in CallSlots, w \in Workers : TxReturn(c, w)
  \/ \E c \in CallSlots, w \in Workers : BlockReturn(c, w)
  \/ \E c \in CallSlots, w \in Workers : SleepDone(c, w)
  \/ \E c \in CallSlots : PoolJoin(c)
  \/ \E c \in CallSlots : RetryV2Return(c)
  \/ \E c \in CallSlots : RetryLegacyReturn(c)
  \/ \E c \in CallSlots : RetryTxReturn(c)
  \/ \E c \in CallSlots : RetryBlockReturn(c)
  \/ \E c \in CallSlots : RetrySleepDone(c)
  \/ \E k \in CatCalls : MarketsReturn(k)
  \/ \E k \in CatCalls, w \in TagWorkers : TagCachedResume(k, w)
  \/ \E k \in CatCalls, w \in TagWorkers : TagFetchReturn(k, w)
  \/ \E k \in CatCalls, w \in TagWorkers : TagSleepDone(k, w)
  \/ \E k \in CatCalls : TagsJoin(k)
  \/ GetJoin
  \/ GetCrash

SpecGet == InitGet /\ [][NextGet]_vars

\* What a pool worker of call c waits for: the answer to its pending
\* external call, or the end of its pacing sleep.
WorkerProceeds(c, w) ==
  \/ V2Return(c, w)
  \/ LegacyReturn(c, w)
  \/ TxReturn(c, w)
  \/ BlockReturn(c, w)
  \/ SleepDone(c, w)

\* What the body of call c waits for: Promise.all of the workers, or the
\* pending external call or sleep of the retry loop.
CallProceeds(c) ==
  \/ PoolJoin(c)
  \/ RetryV2Return(c)
  \/ RetryLegacyReturn(c)
  \/ RetryTxReturn(c)
  \/ RetryBlockReturn(c)
  \/ RetrySleepDone(c)

TagWorkerProceeds(k, w) ==
  \/ TagCachedResume(k, w)
  \/ TagFetchReturn(k, w)
  \/ TagSleepDone(k, w)

CatProceeds(k) == MarketsReturn(k) \/ TagsJoin(k)

\* Every external call that has been issued is answered and every pacing
\* sleep ends; a Promise.all whose promises have all settled resumes.  Each
\* worker and each call body waits for one thing at a time.  A request runs
\* its resolvers in slot 1.
ResolversProceed ==
  /\ \A w \in Workers : WF_vars(WorkerProceeds(1, w))
  /\ WF_vars(CallProceeds(1))
  /\ \A w \in TagWorkers : WF_vars(TagWorkerProceeds(1, w))
  /\ WF_vars(CatProceeds(1))

\* The requests of SpecGet for the feed of two wallets in two markets, with
\* no snapshot file.
InitFairGet ==
  /\ InitGet
  /\ trades = <<PMTrade("0xb", 1, "BUY", 1, 1, "0xm3", NULL),
                PMTrade("0xa", 1, "BUY", 1, 1, "0xm1", NULL),
                PMTrade("0xb", 1, "SELL", 1, 1, "0xm1", "0xh2")>>
  /\ disk = File("ENOENT", <<>>)
  /\ oracle.feed = "json"

\* The request when the services answer and the timers fire.
FairGet == InitFairGet /\ [][NextGet]_vars /\ ResolversProceed

\* ------------------------------------------------------------------ SpecPick

\* The slugs of the lists: the twelve major slugs, two of them in a second
\* spelling, noise slugs, and slugs that are neither.
PickSlugs ==
  MAJOR_SLUGS \cup {"Elections", "Crypto", "weekly", "Weekly", "new",
                    "senate-2026", "Bitcoin", "Other"}

\* The backfill's two calls for one market: major, then sub.
Pick ==
  /\ pickOut = NoPick
  /\ LET major == pickMajorCategory(pickIn) IN
     pickOut' = [category |-> major, subcategory |-> pickSubcategory(pickIn, major)]
  /\ UNCHANGED <<birthVars, catVars, dedupVars, oracle, req, client, pickIn, lastFlush>>

InitPick ==
  /\ BirthsIdle
  /\ disk = File("ENOENT", <<>>)
  /\ eventTagCache = EmptyLookup
  /\ cat = [k \in CatCalls |-> IdleCat]
  /\ catWorker = [k \in CatCalls |-> [w \in TagWorkers |-> IdleTagWorker]]
  /\ DedupIdle
  /\ oracle = FreeOracle
  /\ req = IdleReq
  /\ client = IdleClient
  /\ pickIn \in SeqsUpTo(PickSlugs, MaxSlugs)
  /\ pickOut = NoPick
  /\ lastFlush = NoFlush

NextPick == Pick

SpecPick == InitPick /\ [][NextPick]_vars

\* ------------------------------------------------------------------ SpecOverlap

\* Two requests whose enrichCreatedAt calls overlap: the first for three
\* wallets, the second for the third of them.  The snapshot load is over
\* (there was no file) and the clock stands still while they run.
Lowered3 == {"0xa", "0xb", "0xc"}
LongList == <<"0xa", "0xb", "0xc">>
ShortList == <<"0xc">>

OverlapPlans ==
  {[pool |-> [a \in Lowered3 |-> "iso"], retry |-> [a \in Lowered3 |-> "iso"]],
   [pool |-> [a \in Lowered3 |-> IF a = "0xa" THEN "nullchain"
                                 ELSE IF a = "0xb" THEN "iso" ELSE "nohash"],
    retry |-> [a \in Lowered3 |-> IF a = "0xa" THEN "iso" ELSE "nohash"]]}

InitOverlap ==
  /\ clock = T0
  /\ ticks = 0
  /\ birthCache = EmptyMap
  /\ cacheLoaded = TRUE
  /\ loadPending = FALSE
  /\ flushTimer = <<>>
  /\ pendingFlushes = <<>>
  /\ writes = <<>>
  /\ disk = File("ENOENT", <<>>)
  /\ call = [c \in CallSlots |-> IdleCall]
  /\ worker = [c \in CallSlots |-> [w \in Workers |-> IdleChain]]
  /\ retry = [c \in CallSlots |-> IdleChain]
  /\ eventTagCache = EmptyLookup
  /\ cat = [k \in CatCalls |-> IdleCat]
  /\ catWorker = [k \in CatCalls |-> [w \in TagWorkers |-> IdleTagWorker]]
  /\ DedupIdle
  /\ oracle \in {FixedOracle("json", ch, "each", [e \in Events |-> "json"]) :
                   ch \in OverlapPlans}
  /\ req = IdleReq
  /\ client = IdleClient
  /\ pickIn = <<>>
  /\ pickOut = NoPick
  /\ lastFlush = NoFlush

\* The first request reaches its enrichCreatedAt call.
StartLong == enrichCreatedAt(1, LongList, GET_MAX_UNIQUE)

\* The second request reaches its call, at any moment.
StartShort == enrichCreatedAt(2, ShortList, GET_MAX_UNIQUE)

NextOverlap ==
  \/ StartLong
  \/ StartShort
  \/ \E c \in CallSlots, w \in Workers : V2Return(c, w)
  \/ \E c \in CallSlots, w \in Workers : LegacyReturn(c, w)
  \/ \E c \in CallSlots, w \in Workers : TxReturn(c, w)
  \/ \E c \in CallSlots, w \in Workers : BlockReturn(c, w)
  \/ \E c \in CallSlots, w \in Workers : SleepDone(c, w)
  \/ \E c \in CallSlots : PoolJoin(c)
  \/ \E c \in CallSlots : RetryV2Return(c)
  \/ \E c \in CallSlots : RetryLegacyReturn(c)
  \/ \E c \in CallSlots : RetryTxReturn(c)
  \/ \E c \in CallSlots : RetryBlockReturn(c)
  \/ \E c \in CallSlots : RetrySleepDone(c)

SpecOverlap == InitOverlap /\ [][NextOverlap]_vars

\* ------------------------------------------------------------------ the page

\* normalizeCat on the categories GET answers with.
normalizeCat(raw) ==
  CASE raw = "Politics" -> "politics"
    [] raw = "Crypto" -> "crypto"
    [] raw = "Sports" -> "sports"
    [] raw = "Business" -> "business"
    [] raw = "Culture" -> "culture"
    [] raw = "Tech/Science" -> "technology"
    [] OTHER -> "other"

\* raw.map(...): the alerts as the page keeps them.
Normalized(raw) ==
  [i \in 1..Len(raw) |->
     [id |-> raw[i].id, walletAddress |-> raw[i].walletAddress, side |-> raw[i].side,
      createdAt |-> raw[i].createdAt, category |-> normalizeCat(raw[i].category),
      subcategory |-> raw[i].subcategory, tags |-> raw[i].tagSlugs]]

\* load(false) with no load in flight, up to its await of fetch.
ClientLoad ==
  /\ client.pc = "idle"
  /\ ~client.inFlight
  /\ client' = [client EXCEPT !.pc = "waiting", !.inFlight = TRUE, !.loading = TRUE,
                              !.apiError = "", !.due = clock + LOAD_TIMEOUT_MS]
  /\ UNCHANGED <<birthVars, catVars, dedupVars, oracle, req, pickIn, pickOut, lastFlush>>

\* The page's request reaches the server.
GetArrive == client.pc = "waiting" /\ GetBegin

\* Twenty seconds pass.
DeadlineTick ==
  /\ ticks < MaxTicks
  /\ ticks' = ticks + 1
  /\ clock' = clock + LOAD_TIMEOUT_MS
  /\ NoFlushCall
  /\ UNCHANGED <<notBirth, birthCache, cacheLoaded, loadPending, writes, disk,
                 call, worker, retry>>

\* The timer fires: ac.abort() rejects the fetch with an AbortError, the
\* catch sets the error and the finally block ends the load.  The handler on
\* the server goes on; its answer has no reader.
ClientTimeout ==
  /\ client.pc = "waiting"
  /\ client.due <= clock
  /\ client' = [client EXCEPT !.pc = "settled", !.inFlight = FALSE, !.loading = FALSE,
                              !.apiError = "timeout (20 s)", !.cut = req.pc]
  /\ UNCHANGED <<birthVars, catVars, dedupVars, oracle, req, pickIn, pickOut, lastFlush>>

\* The answer arrives before the timer has fired: an error for a non-OK
\* status, else the normalised alerts; the finally block ends the load.
ClientReceive ==
  /\ client.pc = "waiting"
  /\ req.pc = "responded"
  /\ client' = IF req.status # 200
                 THEN [client EXCEPT !.pc = "settled", !.inFlight = FALSE,
                                     !.loading = FALSE, !.apiError = "API error"]
                 ELSE [client EXCEPT !.pc = "settled", !.inFlight = FALSE,
                                     !.loading = FALSE, !.data = Normalized(req.out)]
  /\ UNCHANGED <<birthVars, catVars, dedupVars, oracle, req, pickIn, pickOut, lastFlush>>

\* ------------------------------------------------------------------ SpecDeadline

\* The page loads once; the request it sends runs on the server as in
\* SpecGet while up to twenty seconds pass.
NextDeadline ==
  \/ ClientLoad
  \/ GetArrive
  \/ LoadEnd
  \/ GetLoaded
  \/ FeedReturn
  \/ \E c \in CallSlots, w \in Workers : V2Return(c, w)
  \/ \E c \in CallSlots, w \in Workers : LegacyReturn(c, w)
  \/ \E c \in CallSlots, w \in Workers : TxReturn(c, w)
  \/ \E c \in CallSlots, w \in Workers : BlockReturn(c, w)
  \/ \E c \in CallSlots, w \in Workers : SleepDone(c, w)
  \/ \E c \in CallSlots : PoolJoin(c)
  \/ \E c \in CallSlots : RetryV2Return(c)
  \/ \E c \in CallSlots : RetryLegacyReturn(c)
  \/ \E c \in CallSlots : RetryTxReturn(c)
  \/ \E c \in CallSlots : RetryBlockReturn(c)
  \/ \E c \in CallSlots : RetrySleepDone(c)
  \/ \E k \in CatCalls : MarketsReturn(k)
  \/ \E k \in CatCalls, w \in TagWorkers : TagCachedResume(k, w)
  \/ \E k \in CatCalls, w \in TagWorkers : TagFetchReturn(k, w)
  \/ \E k \in CatCalls, w \in TagWorkers : TagSleepDone(k, w)
  \/ \E k \in CatCalls : TagsJoin(k)
  \/ GetJoin
  \/ GetCrash
  \/ DeadlineTick
  \/ ClientTimeout
  \/ ClientReceive
  \/ FlushFire
  \/ WriteLand
  \/ WriteFail

SpecDeadline == InitGet /\ [][NextDeadline]_vars

\* ------------------------------------------------------------------ SpecSnapshot

\* A process whose cache is full: it has loaded a snapshot of SNAPSHOT_CAP
\* entries, written a day ago, and now serves a request for the wallet of
\* the oldest entry and a wallet it has never seen.
OldWallet(i) == "w" \o ToString(i)

FullCache ==
  [i \in 1..SNAPSHOT_CAP |-> [k |-> OldWallet(i), v |-> BirthEntry(ISO1, 0)]]

SnapWallets == {OldWallet(1), "x1"}

SnapPlans ==
  {[pool |-> [a \in SnapWallets |-> "iso"], retry |-> [a \in SnapWallets |-> "iso"]],
   [pool |-> [a \in SnapWallets |-> IF a = "x1" THEN "nullchain" ELSE "nohash"],
    retry |-> [a \in SnapWallets |-> IF a = "x1" THEN "iso" ELSE "nohash"]]}

InitSnapshot ==
  /\ clock = T0
  /\ ticks = 0
  /\ birthCache = FullCache
  /\ cacheLoaded = TRUE
  /\ loadPending = FALSE
  /\ flushTimer = <<>>
  /\ pendingFlushes = <<>>
  /\ writes = <<>>
  /\ disk = File("json", FullCache)
  /\ call = [c \in CallSlots |-> IdleCall]
  /\ worker = [c \in CallSlots |-> [w \in Workers |-> IdleChain]]
  /\ retry = [c \in CallSlots |-> IdleChain]
  /\ eventTagCache = EmptyLookup
  /\ cat = [k \in CatCalls |-> IdleCat]
  /\ catWorker = [k \in CatCalls |-> [w \in TagWorkers |-> IdleTagWorker]]
  /\ DedupIdle
  /\ oracle \in {FixedOracle("json", ch, "each", [e \in Events |-> "json"]) :
                   ch \in SnapPlans}
  /\ req = IdleReq
  /\ client = IdleClient
  /\ pickIn = <<>>
  /\ pickOut = NoPick
  /\ lastFlush = NoFlush

StartSnap ==
  \E addresses \in {<<OldWallet(1), "x1">>, <<"x1", OldWallet(1)>>} :
    enrichCreatedAt(1, addresses, GET_MAX_UNIQUE)

NextSnapshot ==
  \/ Tick
  \/ FlushFire
  \/ WriteLand
  \/ WriteFail
  \/ StartSnap
  \/ \E c \in CallSlots, w \in Workers : V2Return(c, w)
  \/ \E c \in CallSlots, w \in Workers : LegacyReturn(c, w)
  \/ \E c \in CallSlots, w \in Workers : TxReturn(c, w)
  \/ \E c \in CallSlots, w \in Workers : BlockReturn(c, w)
  \/ \E c \in CallSlots, w \in Workers : SleepDone(c, w)
  \/ \E c \in CallSlots : PoolJoin(c)
  \/ \E c \in CallSlots : RetryV2Return(c)
  \/ \E c \in CallSlots : RetryLegacyReturn(c)
  \/ \E c \in CallSlots : RetryTxReturn(c)
  \/ \E c \in CallSlots : RetryBlockReturn(c)
  \/ \E c \in CallSlots : RetrySleepDone(c)

SpecSnapshot == InitSnapshot /\ [][NextSnapshot]_vars

\* ------------------------------------------------------------------ SpecRetry

\* One call for 33 wallets in a process whose cache holds a fresh birth time
\* for the fifth and a fresh negative entry for the sixth: 31 wallets are
\* looked up.  The lookups find nothing in the pool and nothing or
\* everything in the retry pass, or they find a few wallets in either.
ManyWallets == [i \in 1..(RETRY_CAP + 3) |-> OldWallet(i)]

FreshTwo ==
  <<[k |-> OldWallet(5), v |-> BirthEntry(ISO1, T0)],
    [k |-> OldWallet(6), v |-> BirthEntry(NULL, T0)]>>

RetryPlans ==
  {[pool |-> [a \in Range(ManyWallets) |-> "nohash"],
    retry |-> [a \in Range(ManyWallets) |-> "nohash"]],
   [pool |-> [a \in Range(ManyWallets) |-> "nohash"],
    retry |-> [a \in Range(ManyWallets) |-> "iso"]],
   [pool |-> [a \in Range(ManyWallets) |->
                IF a = OldWallet(1) THEN "iso"
                ELSE IF a = OldWallet(2) THEN "nullchain" ELSE "nohash"],
    retry |-> [a \in Range(ManyWallets) |->
                 IF a = OldWallet(2) THEN "iso"
                 ELSE IF a = OldWallet(3) THEN "nullchain" ELSE "nohash"]]}

InitRetry ==
  /\ clock = T0
  /\ ticks = 0
  /\ birthCache = FreshTwo
  /\ cacheLoaded = TRUE
  /\ loadPending = FALSE
  /\ flushTimer = <<>>
  /\ pendingFlushes = <<>>
  /\ writes = <<>>
  /\ disk = File("ENOENT", <<>>)
  /\ call = [c \in CallSlots |-> IdleCall]
  /\ worker = [c \in CallSlots |-> [w \in Workers |-> IdleChain]]
  /\ retry = [c \in CallSlots |-> IdleChain]
  /\ eventTagCache = EmptyLookup
  /\ cat = [k \in CatCalls |-> IdleCat]
  /\ catWorker = [k \in CatCalls |-> [w \in TagWorkers |-> IdleTagWorker]]
  /\ DedupIdle
  /\ oracle \in {FixedOracle("json", ch, "each", [e \in Events |-> "json"]) :
                   ch \in RetryPlans}
  /\ req = IdleReq
  /\ client = IdleClient
  /\ pickIn = <<>>
  /\ pickOut = NoPick
  /\ lastFlush = NoFlush

StartMany == enrichCreatedAt(1, ManyWallets, GET_MAX_UNIQUE)

NextRetry ==
  \/ StartMany
  \/ \E c \in CallSlots, w \in Workers : V2Return(c, w)
  \/ \E c \in CallSlots, w \in Workers : LegacyReturn(c, w)
  \/ \E c \in CallSlots, w \in Workers : TxReturn(c, w)
  \/ \E c \in CallSlots, w \in Workers : BlockReturn(c, w)
  \/ \E c \in CallSlots, w \in Workers : SleepDone(c, w)
  \/ \E c \in CallSlots : PoolJoin(c)
  \/ \E c \in CallSlots : RetryV2Return(c)
  \/ \E c \in CallSlots : RetryLegacyReturn(c)
  \/ \E c \in CallSlots : RetryTxReturn(c)
  \/ \E c \in CallSlots : RetryBlockReturn(c)
  \/ \E c \in CallSlots : RetrySleepDone(c)

SpecRetry == InitRetry /\ [][NextRetry]_vars

\* ------------------------------------------------------------------ SpecChunks

\* A condition id list longer than one chunk: 33 ids, one of them in two
\* spellings, 32 distinct lower-cased ids.
ChunkIds ==
  <<"0xM1">> \o [i \in 1..(CHUNK - 1) |-> "c" \o ToString(i)]
    \o <<"0xm1", "c" \o ToString(CHUNK), "0xm2">>

StartChunks == enrichCategoriesByConditionIds(1, ChunkIds)

NextChunks ==
  \/ StartChunks
  \/ MarketsReturn(1)
  \/ \E w \in TagWorkers : TagCachedResume(1, w)
  \/ \E w \in TagWorkers : TagFetchReturn(1, w)
  \/ \E w \in TagWorkers : TagSleepDone(1, w)
  \/ TagsJoin(1)

SpecChunks == InitCats /\ [][NextChunks]_vars

\* ------------------------------------------------------------------ SpecFlush

\* The first request's enrichCreatedAt call in a process whose cache is
\* empty, with the flush timers firing and the file writes landing: every
\* fs.writeFile succeeds, after any delay.
\* Time passes until a pending flush timer is due.
TimerWait ==
  \E i \in 1..Len(pendingFlushes) :
    /\ pendingFlushes[i] > clock
    /\ clock' = pendingFlushes[i]
    /\ NoFlushCall
    /\ UNCHANGED <<notBirth, ticks, birthCache, cacheLoaded, loadPending, writes, disk,
                   call, worker, retry>>

NextFlush ==
  \/ StartLong
  \/ \E c \in CallSlots, w \in Workers : V2Return(c, w)
  \/ \E c \in CallSlots, w \in Workers : LegacyReturn(c, w)
  \/ \E c \in CallSlots, w \in Workers : TxReturn(c, w)
  \/ \E c \in CallSlots, w \in Workers : BlockReturn(c, w)
  \/ \E c \in CallSlots, w \in Workers : SleepDone(c, w)
  \/ \E c \in CallSlots : PoolJoin(c)
  \/ \E c \in CallSlots : RetryV2Return(c)
  \/ \E c \in CallSlots : RetryLegacyReturn(c)
  \/ \E c \in CallSlots : RetryTxReturn(c)
  \/ \E c \in CallSlots : RetryBlockReturn(c)
  \/ \E c \in CallSlots : RetrySleepDone(c)
  \/ TimerWait
  \/ FlushFire
  \/ WriteLand

SpecFlush == InitOverlap /\ [][NextFlush]_vars

\* The same when the services answer, the sleeps end, the timers fire and
\* the file writes complete.
FairFlush ==
  /\ SpecFlush
  /\ \A w \in Workers : WF_vars(WorkerProceeds(1, w))
  /\ WF_vars(CallProceeds(1))
  /\ WF_vars(TimerWait)
  /\ WF_vars(FlushFire)
  /\ WF_vars(WriteLand)

\* ------------------------------------------------------------------ SpecProcess

\* Two requests served by one process at overlapping times.  A behaviour
\* follows their enrichCreatedAt calls or their
\* enrichCategoriesByConditionIds calls.
FirstIds == SubSeq(WideIds, 1, 3)
SecondIds == SubSeq(WideIds, 3, 5)

BirthsQuiet == \A c \in CallSlots : call[c].pc = "idle"

StartLongAlone == CatsQuiet /\ StartLong

StartShortAlone == CatsQuiet /\ StartShort

\* The first request reaches its enrichCategoriesByConditionIds call.
StartFirstIds == BirthsQuiet /\ enrichCategoriesByConditionIds(1, FirstIds)

\* The second request reaches its call, at any moment.
StartSecondIds == BirthsQuiet /\ enrichCategoriesByConditionIds(2, SecondIds)

NextProcess ==
  \/ StartLongAlone
  \/ StartShortAlone
  \/ \E c \in CallSlots, w \in Workers : V2Return(c, w)
  \/ \E c \in CallSlots, w \in Workers : LegacyReturn(c, w)
  \/ \E c \in CallSlots, w \in Workers : TxReturn(c, w)
  \/ \E c \in CallSlots, w \in Workers : BlockReturn(c, w)
  \/ \E c \in CallSlots, w \in Workers : SleepDone(c, w)
  \/ \E c \in CallSlots : PoolJoin(c)
  \/ \E c \in CallSlots : RetryV2Return(c)
  \/ \E c \in CallSlots : RetryLegacyReturn(c)
  \/ \E c \in CallSlots : RetryTxReturn(c)
  \/ \E c \in CallSlots : RetryBlockReturn(c)
  \/ \E c \in CallSlots : RetrySleepDone(c)
  \/ StartFirstIds
  \/ StartSecondIds
  \/ \E k \in CatCalls : MarketsReturn(k)
  \/ \E k \in CatCalls, w \in TagWorkers : TagCachedResume(k, w)
  \/ \E k \in CatCalls, w \in TagWorkers : TagFetchReturn(k, w)
  \/ \E k \in CatCalls, w \in TagWorkers : TagSleepDone(k, w)
  \/ \E k \in CatCalls : TagsJoin(k)

SpecProcess == InitOverlap /\ [][NextProcess]_vars

\* ------------------------------------------------------------------ SpecPolling

\* The page with its load() invocations told apart: the refs inFlight and
\* abortRef (the index of the invocation whose controller it holds, 0 for
\* null), the states loading, apiError and data (the invocation that set
\* it), the interval of the effect, and one record per invocation that got
\* past the guard.  calls counts the invocations of load().
IdlePage ==
  [mounted |-> "no", inFlight |-> FALSE, loading |-> FALSE, apiError |-> "",
   data |-> 0, abortRef |-> 0, nextTick |-> 0, loads |-> <<>>, calls |-> 0]

\* One invocation at its await of fetch: its controller's signal, its
\* timeout timer and the time the timer is due.
NewLoad(force, now) ==
  [pc |-> "fetch", force |-> force, aborted |-> FALSE, timer |-> TRUE,
   due |-> now + LOAD_TIMEOUT_MS]

\* abortRef.current?.abort()
AbortCurrent(page) ==
  IF page.abortRef = 0 THEN page
  ELSE [page EXCEPT !.loads[page.abortRef].aborted = TRUE]

\* load(force) up to its await of fetch.
load(page, force, now) ==
  IF page.inFlight /\ ~force THEN [page EXCEPT !.calls = @ + 1]
  ELSE LET p == IF page.inFlight THEN AbortCurrent(page) ELSE page IN
       [p EXCEPT !.calls = @ + 1, !.inFlight = TRUE, !.loading = TRUE, !.apiError = "",
                 !.abortRef = Len(p.loads) + 1,
                 !.loads = Append(@, NewLoad(force, now))]

\* The rest of invocation i from the point where it leaves the try block:
\* the error or the data it sets, then the finally block.
Finish(page, i, err, gotData) ==
  [page EXCEPT !.loads[i].pc = "done", !.loads[i].timer = FALSE,
               !.apiError = IF err = "" THEN @ ELSE err,
               !.data = IF gotData THEN i ELSE @,
               !.loading = FALSE, !.inFlight = FALSE]

\* What the page's handlers leave alone.
pageFrame ==
  <<ticks, birthCache, cacheLoaded, loadPending, flushTimer, pendingFlushes, writes,
    disk, call, worker, retry, catVars, dedupVars, oracle, req, pickIn, pickOut,
    lastFlush>>

\* The effect runs: load(false), then setInterval.
PageMount ==
  /\ client.mounted = "no"
  /\ client' = [load(client, FALSE, clock) EXCEPT !.mounted = "yes",
                                                   !.nextTick = clock + POLL_MS]
  /\ UNCHANGED <<clock, pageFrame>>

\* The interval fires: load(false).
PageTick ==
  /\ client.mounted = "yes"
  /\ client.nextTick = clock
  /\ client.calls < MaxLoads
  /\ client' = [load(client, FALSE, clock) EXCEPT !.nextTick = clock + POLL_MS]
  /\ UNCHANGED <<clock, pageFrame>>

\* A refresh button is clicked: load(true).
PageClick ==
  /\ client.mounted = "yes"
  /\ client.calls < MaxLoads
  /\ client' = load(client, TRUE, clock)
  /\ UNCHANGED <<clock, pageFrame>>

\* The timeout of invocation i fires: ac.abort().
PageTimeout(i) ==
  /\ client.loads[i].timer
  /\ client.loads[i].due = clock
  /\ client' = [client EXCEPT !.loads[i].timer = FALSE, !.loads[i].aborted = TRUE]
  /\ UNCHANGED <<clock, pageFrame>>

\* The fetch of invocation i resolves with a response, or rejects for a
\* reason other than an abort.
PageFetchReturn(i) ==
  /\ client.loads[i].pc = "fetch"
  /\ ~client.loads[i].aborted
  /\ \E kind \in {"response", "throw"} :
       client' = IF kind = "response" THEN [client EXCEPT !.loads[i].pc = "text"]
                 ELSE Finish(client, i, "failed", FALSE)
  /\ UNCHANGED <<clock, pageFrame>>

\* res.text() of invocation i resolves: a non-OK status, an empty body, a
\* body that is not JSON, or the alerts; or it rejects.
PageTextReturn(i) ==
  /\ client.loads[i].pc = "text"
  /\ ~client.loads[i].aborted
  /\ \E kind \in {"notok", "empty", "badjson", "json", "throw"} :
       client' = IF kind = "json" THEN Finish(client, i, "", TRUE)
                 ELSE IF kind = "throw" THEN Finish(client, i, "failed", FALSE)
                 ELSE Finish(client, i, kind, FALSE)
  /\ UNCHANGED <<clock, pageFrame>>

\* The pending await of an aborted invocation rejects with an AbortError.
PageAbortReturn(i) ==
  /\ client.loads[i].pc \in {"fetch", "text"}
  /\ client.loads[i].aborted
  /\ client' = Finish(client, i, "aborted", FALSE)
  /\ UNCHANGED <<clock, pageFrame>>

\* The cleanup of the effect: clearInterval, abortRef.current?.abort().
PageUnmount ==
  /\ client.mounted = "yes"
  /\ client' = [AbortCurrent(client) EXCEPT !.mounted = "gone", !.nextTick = 0]
  /\ UNCHANGED <<clock, pageFrame>>

\* The times at which a timer of the page is due.
PageDues ==
  {client.loads[i].due : i \in {j \in 1..Len(client.loads) : client.loads[j].timer}}
    \cup (IF client.mounted = "yes" THEN {client.nextTick} ELSE {})

\* How long the model lets the page sit between two events.
PageSteps == {10000}

\* Time passes, by a step or until the next timer is due, and never beyond
\* a timer that is due; an aborted await rejects before any time passes.
PageElapse ==
  /\ PageDues # {}
  /\ \A i \in 1..Len(client.loads) :
       client.loads[i].pc = "done" \/ ~client.loads[i].aborted
  /\ \E t \in {clock + d : d \in PageSteps} \cup PageDues :
       /\ t > clock
       /\ \A due \in PageDues : t <= due
       /\ clock' = t
  /\ UNCHANGED <<client, pageFrame>>

InitPolling ==
  /\ BirthsIdle
  /\ disk = File("ENOENT", <<>>)
  /\ eventTagCache = EmptyLookup
  /\ cat = [k \in CatCalls |-> IdleCat]
  /\ catWorker = [k \in CatCalls |-> [w \in TagWorkers |-> IdleTagWorker]]
  /\ DedupIdle
  /\ oracle = FreeOracle
  /\ req = IdleReq
  /\ client = IdlePage
  /\ pickIn = <<>>
  /\ pickOut = NoPick
  /\ lastFlush = NoFlush

NextPolling ==
  \/ PageMount
  \/ PageTick
  \/ PageClick
  \/ \E i \in 1..MaxLoads : i <= Len(client.loads) /\ PageTimeout(i)
  \/ \E i \in 1..MaxLoads : i <= Len(client.loads) /\ PageFetchReturn(i)
  \/ \E i \in 1..MaxLoads : i <= Len(client.loads) /\ PageTextReturn(i)
  \/ \E i \in 1..MaxLoads : i <= Len(client.loads) /\ PageAbortReturn(i)
  \/ PageUnmount
  \/ PageElapse

SpecPolling == InitPolling /\ [][NextPolling]_vars

\* ================================================================== claims

\* The identity of a trade as the specification defines it: the transaction
\* hash if there is one, otherwise the six fields.
IdentityOf(t) ==
  IF t.transactionHash \notin {NULL, ""}
    THEN [hash |-> t.transactionHash, fields |-> <<>>]
    ELSE [hash |-> NULL,
          fields |-> <<t.proxyWallet, t.timestamp, t.side, t.size, t.price, t.conditionId>>]

\* The trades of ts that no earlier trade of ts shares its identity with.
RECURSIVE FirstOccurrences(_, _)
FirstOccurrences(ts, n) ==
  IF n = 0 THEN <<>>
  ELSE IF \E j \in 1..(n - 1) : IdentityOf(ts[j]) = IdentityOf(ts[n])
         THEN FirstOccurrences(ts, n - 1)
         ELSE Append(FirstOccurrences(ts, n - 1), ts[n])

\* C1: after any number of loop iterations the kept trades have pairwise
\* different identity keys, there is one per identity key of the trades
\* consumed, and they are exactly the first occurrences, in input order.
C1_DedupFirstOccurrences ==
  /\ \A i, j \in 1..Len(uniqTrades) :
       i # j => IdentityOf(uniqTrades[i]) # IdentityOf(uniqTrades[j])
  /\ {IdentityOf(uniqTrades[i]) : i \in 1..Len(uniqTrades)}
       = {IdentityOf(trades[i]) : i \in 1..di}
  /\ uniqTrades = FirstOccurrences(trades, di)

\* Three trades, the last with the hash of the first but other fields: it
\* is dropped and the two others are kept.
C1_Witness ==
  /\ Len(trades) = 3
  /\ di = 3
  /\ trades[1].transactionHash = "0xh1"
  /\ trades[3].transactionHash = "0xh1"
  /\ trades[3] # trades[1]
  /\ uniqTrades = <<trades[1], trades[2]>>

\* ------------------------------------------------------------------ C2, C8, C9

\* The set of lower-cased input addresses.
LowerSet(addresses) == {toLowerCase(addresses[i]) : i \in 1..Len(addresses)}

\* Position of the first occurrence of the lower-cased address a.
FirstAt(addresses, a) ==
  CHOOSE i \in 1..Len(addresses) :
    /\ toLowerCase(addresses[i]) = a
    /\ \A j \in 1..(i - 1) : toLowerCase(addresses[j]) # a

\* The working set: a lower-cased address belongs to it when fewer than
\* `cap` distinct lower-cased addresses occur before its first occurrence.
WorkingSet(addresses, cap) ==
  {a \in LowerSet(addresses) :
     Cardinality({toLowerCase(addresses[j]) : j \in 1..(FirstAt(addresses, a) - 1)}) < cap}

FreshAtStart(cl, a) ==
  /\ MapHas(cl.cache0, a)
  /\ LET e == MapGet(cl.cache0, a) IN
     cl.now - e.cachedAtMs <
       (IF e.createdAtIso # NULL THEN 24 * 60 * 60 * 1000 ELSE 60 * 60 * 1000)

\* C8: an address of the working set is served from the cache, with the
\* cached value and without any external lookup, exactly when the cache at
\* the start of the call holds an entry for it with now - writtenAt < ttl
\* (24 h for a timestamp, 1 h for null); an entry at or past its ttl, or no
\* entry, puts the address in the needs-fetch list.
C8_FreshPartition ==
  \A c \in CallSlots :
    call[c].pc # "idle" =>
      \A a \in Range(call[c].uniq) :
        IF FreshAtStart(call[c], a)
          THEN /\ a \notin Range(call[c].needFetch)
               /\ MapHas(call[c].resultMap, a)
               /\ MapGet(call[c].resultMap, a) = MapGet(call[c].cache0, a).createdAtIso
               /\ a \notin call[c].looked
          ELSE a \in Range(call[c].needFetch)

\* One call meets both boundaries: 0xa's timestamp is 1 ms short of 24 h and
\* is served, 0xb's negative entry is exactly 1 h old and is fetched again.
C8_Witness ==
  /\ call[1].pc = "done"
  /\ MapHas(call[1].cache0, "0xa") /\ MapHas(call[1].cache0, "0xb")
  /\ call[1].now - MapGet(call[1].cache0, "0xa").cachedAtMs = CACHE_TTL_MS - 1
  /\ call[1].now - MapGet(call[1].cache0, "0xb").cachedAtMs = NULL_CACHE_TTL_MS
  /\ call[1].needFetch = <<"0xb">>
  /\ MapGetOrNull(call[1].resultMap, "0xa") = ISO1
  /\ "0xb" \in call[1].looked

\* C9: the call works on exactly the first `cap` distinct lower-cased
\* addresses, in first-occurrence order; an address beyond the cap is absent
\* from the map, is never looked up and gets no cache entry written by the
\* call.
C9_Cap ==
  \A c \in CallSlots :
    call[c].pc # "idle" =>
      LET ws == WorkingSet(call[c].addresses, call[c].maxUnique) IN
      /\ Range(call[c].uniq) = ws
      /\ Len(call[c].uniq) = Cardinality(ws)
      /\ \A i, j \in 1..Len(call[c].uniq) :
           i < j => FirstAt(call[c].addresses, call[c].uniq[i])
                      < FirstAt(call[c].addresses, call[c].uniq[j])
      /\ MapKeys(call[c].resultMap) \subseteq ws
      /\ call[c].looked \subseteq ws
      /\ call[c].wrote \subseteq ws

\* A returned call given two distinct addresses and cap 1: the first was
\* looked up and written, the second is nowhere.
C9_Witness ==
  /\ call[1].pc = "done"
  /\ call[1].maxUnique = 1
  /\ Cardinality(LowerSet(call[1].addresses)) = 2
  /\ call[1].looked = {toLowerCase(call[1].addresses[1])}
  /\ call[1].wrote = call[1].looked
  /\ MapKeys(call[1].resultMap) = call[1].looked

\* ------------------------------------------------------------------ C5, C10

\* C5 (as stated): at the step where an enrichCreatedAt call returns, every
\* address whose lookup failed in the worker pool and again in the retry
\* pass has null in the returned map and a negative (null) entry in the
\* cache.
C5_FailedStaysNegative ==
  [][\A c \in CallSlots :
       (call[c].pc # "done" /\ call'[c].pc = "done") =>
         \A a \in call'[c].failedPool \cap call'[c].failedRetry :
           /\ MapGetOrNull(call'[c].resultMap, a) = NULL
           /\ MapHas(birthCache', a)
           /\ MapGet(birthCache', a).createdAtIso = NULL]_vars

\* A step in which a resolver calls scheduleFlushCacheToDisk: a worker or the
\* retry pass goes to sleep after a store (the worker also after two empty
\* provider answers), or the call returns.
SchedulingStep ==
  \E c \in CallSlots :
    \/ call[c].pc # "done" /\ call'[c].pc = "done"
    \/ \E w \in Workers : /\ worker[c][w].pc \in {"legacy", "tx", "block"}
                          /\ worker'[c][w].pc = "sleep"
    \/ retry[c].pc \in {"tx", "block"} /\ retry'[c].pc = "sleep"

\* C10: at most one flush is pending in every reachable state; a
\* scheduleFlushCacheToDisk call made while one is pending changes nothing
\* (no second timer, the due time stays), and a call made when none is
\* pending schedules exactly one, due 800 ms later.
C10_SingleFlightFlush ==
  /\ [](Len(pendingFlushes) <= 1 /\ flushTimer = pendingFlushes)
  /\ [][SchedulingStep =>
          IF pendingFlushes # <<>>
            THEN pendingFlushes' = pendingFlushes /\ flushTimer' = flushTimer
            ELSE pendingFlushes' = <<clock + 800>>]_vars

\* The call has returned 1 ms after one of its workers scheduled the flush:
\* the flush scheduled first is still the only one and was not postponed.
C10_Witness ==
  /\ call[1].pc = "done"
  /\ call[1].wrote # {}
  /\ clock = T0 + 1
  /\ pendingFlushes = <<T0 + FLUSH_DELAY_MS>>

\* ------------------------------------------------------------------ C3, C4, C6

\* The batched lookups of the call returned a record for the id that names
\* an event.
HasEvent(cl, id) ==
  \E r \in 1..Len(cl.marketResps) :
    \E i \in 1..Len(cl.marketResps[r]) :
      LET m == cl.marketResps[r][i] IN
      /\ m.conditionId # NULL
      /\ toLowerCase(m.conditionId) = id
      /\ \/ m.events # <<>> /\ m.events[1] # NULL
         \/ m.eventId # NULL

Uncategorized == CatInfo("Other", "Other", <<>>)

\* C3: when an enrichCategoriesByConditionIds call has returned, its map has
\* a triple for every distinct lower-cased market id of the input (and for
\* nothing else), and an id whose record is missing from the batch response
\* or names no event has category "Other", subcategory "Other", tagSlugs [].
C3_CatsTotal ==
  \A k \in CatCalls :
    cat[k].pc = "done" =>
      /\ MapKeys(cat[k].condTo) = LowerSet(cat[k].conditionIds)
      /\ \A id \in LowerSet(cat[k].conditionIds) :
           ~HasEvent(cat[k], id) => MapGet(cat[k].condTo, id) = Uncategorized

\* The wide list answered with gaps: 0xm1 has a record without event, 0xm2
\* has no record, 0xm3 is categorized.
C3_Witness ==
  /\ cat[1].pc = "done"
  /\ cat[1].conditionIds = WideIds
  /\ ~HasEvent(cat[1], "0xm1") /\ ~HasEvent(cat[1], "0xm2")
  /\ MapGetOrNull(cat[1].condTo, "0xm1") = Uncategorized
  /\ MapGetOrNull(cat[1].condTo, "0xm2") = Uncategorized
  /\ HasEvent(cat[1], "0xm3")
  /\ MapHas(cat[1].condTo, "0xm3")
  /\ MapGet(cat[1].condTo, "0xm3").category = "Crypto"

\* C4 (as stated): no enrichCategoriesByConditionIds call ever ends by
\* throwing, whatever fails in the batched market lookup or in a tag lookup.
C4_NeverThrows ==
  \A k \in CatCalls : cat[k].pc # "threw"

\* Every cache entry the second call found at its start is still fresh.
WarmCache ==
  \A e \in DOMAIN cat[2].cache0 :
    clock - cat[2].cache0[e].cachedAtMs < 6 * 60 * 60 * 1000

SameTagsCached ==
  \A u \in cat[1].tagsUsed :
    /\ LookupHas(cat[2].cache0, u[1])
    /\ SlugsOf(cat[2].cache0[u[1]].tags) = u[2]
    /\ clock - cat[2].cache0[u[1]].cachedAtMs < 6 * 60 * 60 * 1000

LookupPcs == {"v2", "legacy", "tx", "block"}

\* Lookup chains of call c that wait for a provider or the chain RPC.
BirthsInFlight(c) ==
  Cardinality({w \in Workers : worker[c][w].pc \in LookupPcs})
    + (IF retry[c].pc \in LookupPcs THEN 1 ELSE 0)

\* Tag requests of call k that wait for the metadata service.
TagsInFlight(k) ==
  Cardinality({w \in TagWorkers : catWorker[k][w].pc = "fetch"})

KeptTrades == FirstOccurrences(trades, Len(trades))

\* C11: the enriched output has one record per deduplicated trade, in the
\* deduplicated input order, and record i carries the birth timestamp the
\* wallet map holds under trade i's lower-cased wallet address (null if
\* absent) and the category triple the category map holds under trade i's
\* lower-cased market id ("Other", "Other", [] if absent), in whatever order
\* the two resolvers have completed.
C11_Join ==
  (req.pc = "responded" /\ req.status = 200 /\ trades # <<>>) =>
    /\ Len(req.out) = Len(KeptTrades)
    /\ \A i \in 1..Len(KeptTrades) :
         LET t == KeptTrades[i]
             cid == toLowerCase(t.conditionId)
             condToCat == cat[1].condTo
         IN /\ req.out[i].walletAddress = t.proxyWallet
            /\ req.out[i].side = t.side
            /\ req.out[i].note = "cond:" \o t.conditionId
            /\ req.out[i].createdAt
                 = MapGetOrNull(call[1].resultMap, toLowerCase(t.proxyWallet))
            /\ <<req.out[i].category, req.out[i].subcategory, req.out[i].tagSlugs>>
                 = IF MapHas(condToCat, cid)
                     THEN <<MapGet(condToCat, cid).category,
                            MapGet(condToCat, cid).subcategory,
                            MapGet(condToCat, cid).tagSlugs>>
                     ELSE <<"Other", "Other", <<>>>>

\* Three trades, the third a repetition of the first: two records, the first
\* for the wallet that arrived as 0xA with its birth time and the category
\* of its market, the second for 0xb.
C11_Witness ==
  /\ req.pc = "responded"
  /\ req.status = 200
  /\ Len(trades) = 3
  /\ Len(req.out) = 2
  /\ req.out[1].walletAddress = "0xA"
  /\ req.out[1].createdAt = ISO1
  /\ req.out[1].category = "Politics"
  /\ req.out[2].walletAddress = "0xb"
  /\ req.out[2].subcategory = "Other"

\* What the request answers when the wallet-birth resolver runs alone and to
\* its end and the category resolver after it, computed from the trades, the
\* fixed answers and the two caches as they were when the resolvers started.
RefWallets ==
  UniqAddresses([i \in 1..Len(KeptTrades) |-> KeptTrades[i].proxyWallet], GET_MAX_UNIQUE)

RefNeed == FilterIn(RefWallets, {a \in Range(RefWallets) : ~FreshAtStart(call[1], a)})

RefRetried ==
  Range(SliceTo(FilterIn(RefNeed, {a \in Range(RefNeed) : oracle.chain.pool[a] # "iso"}),
                RETRY_CAP))

RefBirth(a) ==
  IF a \notin Range(RefWallets) THEN NULL
  ELSE IF FreshAtStart(call[1], a) THEN MapGet(call[1].cache0, a).createdAtIso
  ELSE IF oracle.chain.pool[a] = "iso" THEN ISO1
  ELSE IF a \in RefRetried /\ oracle.chain.retry[a] = "iso" THEN ISO1
  ELSE NULL

RefIds ==
  UniqueOf(MapLower([i \in 1..Len(KeptTrades) |-> KeptTrades[i].conditionId]), <<>>)

RefMarkets == MarketsShape(oracle.markets, RefIds)

RefEvents == CondToEventId(IF RefMarkets.kind = "json" THEN RefMarkets.body ELSE <<>>, EmptyMap)

RefTags(e) ==
  IF TagFresh(cat[1].cache0, e, call[1].now) THEN cat[1].cache0[e].tags
  ELSE IF oracle.tags[e] = "json" THEN TagsOfEvent(e)
  ELSE <<>>

RefCat(cid) ==
  LET tagSlugs == IF MapHas(RefEvents, cid) THEN SlugsOf(RefTags(MapGet(RefEvents, cid)))
                  ELSE <<>>
      major == pickMajorCategory(tagSlugs)
  IN CatInfo(major, pickSubcategory(tagSlugs, major), tagSlugs)

RefResponse ==
  IF oracle.feed = "notok" THEN Respond(502, <<>>)
  ELSE IF oracle.feed = "badjson" THEN Respond(500, <<>>)
  ELSE IF trades = <<>> THEN Respond(200, <<>>)
  ELSE IF RefMarkets.kind \in {"throw", "badjson"} THEN Respond(500, <<>>)
  ELSE Respond(200,
         [i \in 1..Len(KeptTrades) |->
            LET c == RefCat(toLowerCase(KeptTrades[i].conditionId)) IN
            [RawAlert(KeptTrades[i], i - 1) EXCEPT
               !.createdAt = RefBirth(toLowerCase(KeptTrades[i].proxyWallet)),
               !.category = c.category,
               !.subcategory = c.subcategory,
               !.tagSlugs = c.tagSlugs]])

\* What the wallet-birth resolver writes, and what the category resolver
\* writes.
BirthsWritten == <<birthCache, flushTimer, pendingFlushes, call, worker, retry>>
CatsWritten == <<eventTagCache, cat, catWorker>>

\* C12: with the external answers and the initial caches fixed, the answer
\* of the request is the same in every interleaving of the steps of the two
\* resolvers (it is the answer of the run that takes them one after the
\* other), and no step of one resolver writes state of the other.
C12_Independent ==
  /\ [](req.pc = "responded" => req = RefResponse)
  /\ [][req.pc = "enrich" =>
          (BirthsWritten' = BirthsWritten \/ CatsWritten' = CatsWritten)]_vars

\* Three records with a warm tag cache and a snapshot on disk: the first
\* wallet's birth time comes from the retry pass, the second's from the
\* snapshot, the second market's category from the tag cache.
C12_Witness ==
  /\ req.pc = "responded"
  /\ req.status = 200
  /\ Len(req.out) = 3
  /\ disk.kind = "json"
  /\ oracle.chain.pool["0xb"] = "nohash"
  /\ req.out[1].createdAt = ISO1
  /\ req.out[1].category = "Crypto"
  /\ req.out[2].createdAt = ISO1
  /\ req.out[2].category = "Sports"
  /\ req.out[3].category = "Sports"
  /\ worker[1][1].pc = "done"
  /\ cat[1].pc = "done"

\* ------------------------------------------------------------------ C13, C14

\* The groups of major slugs in their priority order, as the specification
\* lists them.
MajorGroups ==
  <<[name |-> "Politics", slugs |-> {"politics", "elections", "geopolitics"}],
    [name |-> "Crypto", slugs |-> {"crypto"}],
    [name |-> "Sports", slugs |-> {"sports"}],
    [name |-> "Business", slugs |-> {"business", "economy"}],
    [name |-> "Culture", slugs |-> {"culture", "entertainment"}],
    [name |-> "Tech/Science", slugs |-> {"science", "technology", "tech"}]>>

\* The groups that have a member among the slugs, compared without case.
GroupsHit(tagSlugs) ==
  {g \in 1..Len(MajorGroups) :
     \E i \in 1..Len(tagSlugs) : toLowerCase(tagSlugs[i]) \in MajorGroups[g].slugs}

Picked == pickOut # NoPick

\* C13: the category of a tag-slug list is the name of the first group, in
\* the priority order Politics > Crypto > Sports > Business > Culture >
\* Tech/Science, that has a member among the slugs compared without case,
\* wherever the slugs stand in the list; it is "Other" exactly when the list
\* has no major slug.
C13_Category ==
  Picked =>
    /\ \A g \in GroupsHit(pickIn) :
         (\A h \in GroupsHit(pickIn) : g <= h) => pickOut.category = MajorGroups[g].name
    /\ (pickOut.category = "Other") <=> (GroupsHit(pickIn) = {})

\* Crypto in the last place, in its capitalised spelling, wins over tech
\* before it.
C13_Witness ==
  /\ Picked
  /\ pickIn = <<"senate-2026", "tech", "Crypto">>
  /\ pickOut.category = "Crypto"

NoiseSlugs == {"recurring", "monthly", "daily", "weekly", "featured", "new"}

\* A slug that is neither a major slug nor a noise slug, compared without
\* case.
IsCandidate(s) ==
  /\ toLowerCase(s) \notin NoiseSlugs
  /\ \A g \in 1..Len(MajorGroups) : toLowerCase(s) \notin MajorGroups[g].slugs

CandidateAt(tagSlugs) == {i \in 1..Len(tagSlugs) : IsCandidate(tagSlugs[i])}

FirstCandidate(tagSlugs) ==
  tagSlugs[CHOOSE i \in CandidateAt(tagSlugs) : \A j \in CandidateAt(tagSlugs) : i <= j]

\* C14, as stated: the subcategory is the first slug that is neither major
\* nor noise, and it equals the category exactly when there is no such slug.
C14_SubcategoryIsSlug ==
  Picked =>
    /\ CandidateAt(pickIn) # {} => pickOut.subcategory = FirstCandidate(pickIn)
    /\ (pickOut.subcategory = pickOut.category) <=> (CandidateAt(pickIn) = {})

\* C14: the subcategory is the lower-cased form of the first slug, in list
\* order, that is neither a major slug nor a noise slug compared without
\* case; it equals the category exactly when there is no such slug.
C14_SubcategoryLowered ==
  Picked =>
    /\ CandidateAt(pickIn) # {} =>
         pickOut.subcategory = toLowerCase(FirstCandidate(pickIn))
    /\ (pickOut.subcategory = pickOut.category) <=> (CandidateAt(pickIn) = {})

\* A noise slug, then a slug with a capital, then another candidate: the
\* subcategory is the second slug in lower case.
C14_Witness ==
  /\ Picked
  /\ pickIn = <<"Weekly", "Bitcoin", "senate-2026">>
  /\ pickOut.subcategory = "bitcoin"
  /\ pickOut.category = "Other"

\* ------------------------------------------------------------------ C15

\* Call c has a lookup chain for address a waiting for a provider or the
\* chain RPC.
LookupPending(c, a) ==
  \/ \E w \in Workers : worker[c][w].pc \in LookupPcs /\ worker[c][w].addr = a
  \/ retry[c].pc \in LookupPcs /\ retry[c].addr = a

\* C15: when two enrichCreatedAt calls overlap and both have the same
\* address in their input, no lookup chain for it is started by one call
\* while the other call's lookup chain for it is pending: the two calls
\* never have a chain for the same address in flight at once.
C15_NoDuplicateLookup ==
  \A a \in Lowered3 : ~(LookupPending(1, a) /\ LookupPending(2, a))

\* ------------------------------------------------------------------ C16

\* The timer fired while the two resolvers of the request were running.
CutWhileEnriching == client.pc = "settled" /\ client.cut = "enrich"

\* C16: when the request is still running at the 20-second deadline, the
\* consumer has the records, with the enrichment resolved by then, and no
\* error.
C16_PartialAtDeadline ==
  CutWhileEnriching =>
    /\ client.apiError = ""
    /\ Len(client.data) = Len(uniqTrades)

\* ------------------------------------------------------------------ C17

\* A flush has taken its snapshot in this step.
SnapshotTaken == Len(writes') > Len(writes)

\* C17: a flush writes at most 5000 entries, and when the cache holds more
\* than 5000 entries they are the most recently put ones: an entry that a
\* running call has put since the cache was loaded, while fewer than 5000
\* entries were put after it, is among them with its current value.
C17_RecentPutsKept ==
  [][SnapshotTaken =>
       LET snapshot == writes'[Len(writes')] IN
       /\ Len(snapshot) <= SNAPSHOT_CAP
       /\ \A c \in CallSlots : \A a \in call[c].wrote :
            /\ MapHas(snapshot, a)
            /\ MapGet(snapshot, a) = MapGet(birthCache, a)]_vars

\* ------------------------------------------------------------------ C18, C19

\* The entries of the cache that this step has put: new keys and keys whose
\* entry has changed.
PutInStep ==
  {i \in 1..Len(birthCache') : i > Len(birthCache) \/ birthCache'[i] # birthCache[i]}

\* The step is a write of a resolver (the load at process start merges the
\* entries of the file with the timestamps they were saved with).
ResolverWrite == loadPending' = loadPending /\ PutInStep # {}

\* C18: every write of a call to the wallet-birth cache (marker, result,
\* negative entry, retry result) stamps the entry with the clock value at
\* the moment of the write.
C18_StampsCurrentTime ==
  [][ResolverWrite => \A i \in PutInStep : birthCache'[i].v.cachedAtMs = clock]_vars

\* C19: no enrichCreatedAt call reads or writes the cache before the load
\* of the snapshot has finished merging the persisted entries, also when it
\* is the call of a second request: no call has started while the file is
\* being read.
C19_LoadBeforeCalls ==
  \A c \in CallSlots : call[c].pc # "idle" => ~loadPending

\* ------------------------------------------------------------------ C20

\* The lookup attempts call c has started for address a, in the pool and in
\* the retry pass.
PoolTries(c, a) ==
  Cardinality({i \in 1..Len(call[c].tries) : call[c].tries[i] = <<"pool", a>>})

RetryTries(c, a) ==
  Cardinality({i \in 1..Len(call[c].tries) : call[c].tries[i] = <<"retry", a>>})

RetryTried(c) == {a \in Range(call[c].uniq) : RetryTries(c, a) > 0}

RetryRunning(c) == retry[c].pc \in LookupPcs \cup {"sleep"}

\* C20: the retry pass of a call runs only once both pool workers have
\* finished, one address at a time; it attempts at most 30 addresses, each
\* one an address the call looked up in its pool that maps to null when the
\* attempt starts; so an address gets at most 2 attempts per call (one per
\* pass), an address served from the cache gets none, and when the call
\* returns an address that is null and was not retried stands behind 30
\* retried ones.
C20_RetryPass ==
  \A c \in CallSlots :
    /\ RetryRunning(c) =>
         /\ \A w \in Workers : worker[c][w].pc = "done"
         /\ BirthsInFlight(c) <= 1
    /\ retry[c].pc \in LookupPcs =>
         /\ MapHas(call[c].resultMap, retry[c].addr)
         /\ MapGet(call[c].resultMap, retry[c].addr) = NULL
    /\ Cardinality(RetryTried(c)) <= 30
    /\ \A a \in Range(call[c].uniq) :
         /\ PoolTries(c, a) <= 1
         /\ RetryTries(c, a) <= 1
         /\ RetryTries(c, a) = 1 => PoolTries(c, a) = 1
         /\ FreshAtStart(call[c], a) => PoolTries(c, a) + RetryTries(c, a) = 0
    /\ call[c].pc = "done" =>
         \A i \in 1..Len(call[c].needFetch) :
           LET a == call[c].needFetch[i] IN
           (MapGetOrNull(call[c].resultMap, a) = NULL /\ a \notin RetryTried(c)) =>
             /\ Cardinality(RetryTried(c)) = 30
             /\ RetryTried(c) \subseteq {call[c].needFetch[j] : j \in 1..(i - 1)}
             /\ PoolTries(c, a) = 1

\* The call has returned: 31 addresses were looked up and found nowhere, 30
\* of them were tried twice, the last one once and it is null; the two
\* addresses served from the cache were never tried.
C20_Witness ==
  /\ call[1].pc = "done"
  /\ Len(call[1].needFetch) = 31
  /\ Cardinality(RetryTried(1)) = 30
  /\ \A a \in Range(call[1].needFetch) : MapGet(call[1].resultMap, a) = NULL
  /\ RetryTries(1, OldWallet(33)) = 0
  /\ PoolTries(1, OldWallet(33)) = 1
  /\ PoolTries(1, OldWallet(4)) + RetryTries(1, OldWallet(4)) = 2
  /\ PoolTries(1, OldWallet(5)) + RetryTries(1, OldWallet(5)) = 0
  /\ PoolTries(1, OldWallet(6)) + RetryTries(1, OldWallet(6)) = 0
  /\ MapGet(call[1].resultMap, OldWallet(6)) = NULL

\* The addresses the pool workers of call c have claimed, in claim order.
PoolClaims(c) ==
  LET sel == SelectSeq(call[c].tries, LAMBDA t : t[1] = "pool")
  IN [i \in 1..Len(sel) |-> sel[i][2]]

\* A pool worker of call c that holds a claimed address.
HoldsAddr(c, w) == worker[c][w].pc \in LookupPcs \cup {"sleep"}

\* A tag worker of call k that holds a claimed event id.
HoldsEvent(k, w) == catWorker[k][w].pc \in {"fetch", "cached", "sleep"}

ChainOrder(a, b) ==
  a.pc # b.pc =>
    /\ b.pc = "v2" => a.pc \in {"idle", "sleep"} /\ b.tx = NULL /\ b.blk = NULL
    /\ b.pc = "legacy" => a.pc = "v2" /\ b.addr = a.addr /\ b.tx = NULL
    /\ b.pc = "tx" => /\ a.pc \in {"v2", "legacy"}
                      /\ b.addr = a.addr
                      /\ b.tx # NULL /\ startsWith0x(b.tx)
    /\ b.pc = "block" => a.pc = "tx" /\ b.addr = a.addr /\ b.tx = a.tx /\ b.blk # NULL
    /\ (a.pc = "legacy" /\ b.pc # "tx") => b.pc = "sleep" /\ b.tx = NULL

\* C22: in every address attempt, of the pool and of the retry pass, the
\* secondary provider is called only after the primary provider returned no
\* hash, the transaction lookup only after a provider returned a hash, the
\* block lookup only after the transaction lookup returned a block number,
\* and an attempt in which neither provider returned a hash goes to its
\* pacing sleep without a chain-RPC call.
C22_LookupChainOrder ==
  [][\A c \in CallSlots :
       /\ \A w \in Workers : ChainOrder(worker[c][w], worker'[c][w])
       /\ ChainOrder(retry[c], retry'[c])]_vars

\* The retry attempt of an address whose pool attempt found nothing waits
\* for the block lookup, with a hash and a block number in hand.
C22_Witness ==
  \E c \in CallSlots :
    /\ retry[c].pc = "block"
    /\ retry[c].addr \in call[c].failedPool
    /\ startsWith0x(retry[c].tx)
    /\ retry[c].blk # NULL

\* All batches call k has sent so far, one after the other.
RECURSIVE Flatten(_)
Flatten(seqs) == IF seqs = <<>> THEN <<>> ELSE Head(seqs) \o Flatten(Tail(seqs))

SentIds(k) == Flatten(cat[k].marketReqs)

\* The number of batched lookups of call k that carried id.
TimesSent(k, id) ==
  Cardinality({j \in 1..Len(cat[k].marketReqs) :
                 \E i \in 1..Len(cat[k].marketReqs[j]) : cat[k].marketReqs[j][i] = id})

\* The call is over: it has returned its map or rejected.
CatOver(k) == cat[k].pc \in {"done", "threw"}

\* What holds of the chunks whether the call returns or rejects: a batched
\* lookup is sent only while no tag lookup of the call is under way, carries
\* at most 30 ids, and the batches sent so far are the distinct lower-cased
\* ids in order, none repeated.
ChunksInOrder ==
  \A k \in CatCalls :
    /\ cat[k].pc = "markets" => \A w \in TagWorkers : ~HoldsEvent(k, w)
    /\ \A j \in 1..Len(cat[k].marketReqs) :
         /\ Len(cat[k].marketReqs[j]) <= 30
         /\ cat[k].marketReqs[j] = ChunkOf(cat[k].uniq, (j - 1) * 30)
    /\ SentIds(k) = SubSeq(cat[k].uniq, 1, Len(SentIds(k)))
    /\ cat[k].uniq = UniqueOf(MapLower(cat[k].conditionIds), <<>>)
    /\ \A id \in Range(cat[k].uniq) : TimesSent(k, id) <= 1

\* C23: resolveCategories issues its batched lookups one chunk after the
\* other, every batched lookup carries at most 30 ids, and once the call is
\* over every distinct lower-cased market id has been sent in exactly one
\* batched lookup.
C23_Chunking ==
  /\ ChunksInOrder
  /\ \A k \in CatCalls :
       CatOver(k) => \A id \in Range(cat[k].uniq) : TimesSent(k, id) = 1

\* The same for the calls that return.
ChunkingOfReturned ==
  /\ ChunksInOrder
  /\ \A k \in CatCalls :
       cat[k].pc = "done" => \A id \in Range(cat[k].uniq) : TimesSent(k, id) = 1

\* A call over 32 distinct ids has returned after two batched lookups.
ChunkedCallReturned ==
  /\ cat[1].pc = "done"
  /\ Len(cat[1].uniq) = 32
  /\ Len(cat[1].marketReqs) = 2

\* The external lookups of the calls so far are within the bounds the input
\* gives: an address is tried at most once by the pool and at most once by
\* the retry pass, the retry pass tries at most 30 addresses, at most one
\* batched lookup per chunk has been sent, and a chunk's tag lookups are at
\* most one per distinct event id of the chunk.
LookupsBounded ==
  /\ \A c \in CallSlots :
       /\ \A i \in 1..Len(call[c].tries) :
            call[c].tries[i][2] \in Range(call[c].needFetch)
       /\ \A a \in Range(call[c].needFetch) : PoolTries(c, a) <= 1 /\ RetryTries(c, a) <= 1
       /\ Cardinality(RetryTried(c)) <= 30
  /\ \A k \in CatCalls :
       /\ Len(cat[k].marketReqs) <= (Len(cat[k].uniq) + 29) \div 30
       /\ Len(cat[k].claimed) <= Len(cat[k].eventIds)
       /\ \A e \in Range(cat[k].eventIds) :
            Cardinality({i \in 1..Len(cat[k].claimed) :
                           cat[k].eventIds[cat[k].claimed[i]] = e}) <= 1

BirthsRunning(c) == call[c].pc \in {"pool", "retry"}

CatsRunning(k) == cat[k].pc \in {"markets", "tags"}

\* C24: when every external call and every pacing sleep completes, every
\* enrichCreatedAt call and every enrichCategoriesByConditionIds call
\* eventually returns, with its external lookups within the bounds of its
\* input.
C24_Termination ==
  /\ []LookupsBounded
  /\ \A c \in CallSlots : BirthsRunning(c) ~> (call[c].pc = "done")
  /\ \A k \in CatCalls : CatsRunning(k) ~> (cat[k].pc = "done")

\* The same with the rejection of a call counted as its end.
EveryCallEnds ==
  /\ []LookupsBounded
  /\ \A c \in CallSlots : BirthsRunning(c) ~> (call[c].pc = "done")
  /\ \A k \in CatCalls : CatsRunning(k) ~> CatOver(k)

\* The addresses the resolvers have written to the cache.
Written == UNION {call[c].wrote : c \in CallSlots}

\* No flush that has fired holds the cache's entry for a.
Unflushed(a) ==
  ~(/\ lastFlush.fired
    /\ MapHas(lastFlush.entries, a)
    /\ MapGet(lastFlush.entries, a) = MapGet(birthCache, a))

\* The snapshot file holds the cache's entry for a.
DiskHolds(a) ==
  /\ disk.kind = "json"
  /\ MapHas(disk.entries, a)
  /\ MapGet(disk.entries, a) = MapGet(birthCache, a)

\* No flush is scheduled and no file write is in progress.
FlushQuiet == flushTimer = <<>> /\ pendingFlushes = <<>> /\ writes = <<>>

\* After a write a flush fires that takes its snapshot at or after the
\* write, and once the writing call has returned no write is left without a
\* pending flush.
FlushFollowsWrite ==
  /\ \A a \in Lowered3 : (a \in Written /\ Unflushed(a)) ~> ~Unflushed(a)
  /\ []((\A c \in CallSlots : ~BirthsRunning(c))
          => \A a \in Written : Unflushed(a) => flushTimer # <<>>)

LandsInOrder == [][Len(writes') < Len(writes) => writes' = Tail(writes)]_vars

\* C30: the write of one flush never lands after the write of a flush that
\* fired later, and once no flush is pending or writing the snapshot file
\* holds the snapshot taken by the flush that fired last.
C30_FlushWriteOrder ==
  /\ LandsInOrder
  /\ [](FlushQuiet /\ lastFlush.fired => disk = File("json", lastFlush.entries))

\* In this step tag worker w of call k starts a gammaFetchEventTags call
\* that finds a fresh cache entry and issues no request.
TagHitStep(k, w) ==
  /\ catWorker[k][w].pc # "cached"
  /\ catWorker'[k][w].pc = "cached"

\* In this step tag worker w of call k issues a request to the tag service.
TagRequestStep(k, w) ==
  /\ catWorker[k][w].pc # "fetch"
  /\ catWorker'[k][w].pc = "fetch"

\* In this step the request of tag worker w of call k completes.
TagCompletedStep(k, w) ==
  /\ catWorker[k][w].pc = "fetch"
  /\ catWorker'[k][w].pc # "fetch"

\* A lookup that finds an entry younger than the TTL issues no request and
\* returns the cached list; a request is issued only without such an entry.
FreshEntryServes ==
  [][\A k \in CatCalls, w \in TagWorkers :
       /\ TagHitStep(k, w) =>
            /\ TagFresh(eventTagCache, catWorker'[k][w].eventId, clock)
            /\ catWorker'[k][w].tags = eventTagCache[catWorker'[k][w].eventId].tags
       /\ TagRequestStep(k, w) =>
            ~TagFresh(eventTagCache, catWorker'[k][w].eventId, clock)]_vars

\* C26: a tag lookup for an event id with a cache entry younger than the
\* TTL issues no external request and returns the cached list, and every
\* completed external tag lookup, successful or not, leaves a cache entry
\* for its event id stamped with the time of the lookup.
C26_EventTagCache ==
  /\ FreshEntryServes
  /\ [][\A k \in CatCalls, w \in TagWorkers :
          TagCompletedStep(k, w) =>
            /\ LookupHas(eventTagCache', catWorker[k][w].eventId)
            /\ eventTagCache'[catWorker[k][w].eventId].cachedAtMs = catWorker[k][w].now]_vars

\* Lookup chains in flight in the process, over all its calls.
ProcessBirthsInFlight == BirthsInFlight(1) + BirthsInFlight(2)

\* Tag lookups in flight in the process, over all its calls.
ProcessTagsInFlight == TagsInFlight(1) + TagsInFlight(2)

\* The tag half of the bound.
ProcessTagBound == ProcessTagsInFlight <= CONCURRENCY_TAGS

\* C27: with several requests served by the process at overlapping times,
\* never more than 2 wallet-birth lookup chains and never more than 4 tag
\* lookups are in flight in the process.
C27_ProcessBackpressure ==
  /\ ProcessBirthsInFlight <= CONCURRENCY
  /\ ProcessTagBound

\* The cache holds a creation timestamp for address a.
Resolved(cache, a) == MapHas(cache, a) /\ MapGet(cache, a).createdAtIso # NULL

\* C28: once the wallet-birth cache holds a non-null creation timestamp
\* for an address, it never later holds null for that address (nor loses
\* the entry).
C28_ResolvedStays ==
  [][\A a \in MapKeys(birthCache) : Resolved(birthCache, a) => Resolved(birthCache', a)]_vars

\* The step in which the snapshot that was read is merged into the cache.
LoadCompletes == loadPending /\ ~loadPending'

\* C29: the merge of the persisted snapshot never replaces an entry that a
\* resolver of the running process has written: after the load completes,
\* every address written by a resolver still holds the resolver's value and
\* timestamp.
C29_LoadKeepsWrites ==
  [][LoadCompletes =>
       \A a \in Written : /\ MapHas(birthCache', a)
                          /\ MapGet(birthCache', a) = MapGet(birthCache, a)]_vars

\* ------------------------------------------------------------------ C31

\* The invocations of load() whose request is outstanding: started, not
\* answered and not aborted.
OutstandingLoads ==
  {i \in 1..Len(client.loads) :
     client.loads[i].pc \in {"fetch", "text"} /\ ~client.loads[i].aborted}

\* At most one request is outstanding, and the flag is up while one is.
OneOutstanding ==
  /\ Cardinality(OutstandingLoads) <= 1
  /\ OutstandingLoads # {} => client.inFlight

\* A load() that starts a request while one is outstanding is a forced one,
\* and the new request is then the only one outstanding.
OnlyForcedReplaces ==
  [][(Len(client'.loads) > Len(client.loads) /\ OutstandingLoads # {}) =>
       /\ client'.loads[Len(client'.loads)].force
       /\ OutstandingLoads' = {Len(client'.loads)}]_vars

\* The cleanup of an aborted invocation leaves the flag and the loading
\* state of an outstanding request as they are.
AbortedCleanupKeepsFlag ==
  [][\A i \in 1..Len(client.loads) :
       (/\ client.loads[i].aborted
        /\ client.loads[i].pc # "done"
        /\ client'.loads[i].pc = "done"
        /\ OutstandingLoads # {}) =>
         /\ client'.inFlight = client.inFlight
         /\ client'.loading = client.loading]_vars

\* C31: at most one /api/alerts request started by load() is outstanding
\* at any time and inFlight is true whenever one is; a non-forced load
\* during an outstanding request does nothing; after a forced load has
\* aborted the previous request, the aborted request's cleanup neither
\* clears the flag and loading state of the new request nor lets a timer
\* tick start a second concurrent request.
C31_SingleFlightPolling ==
  /\ []OneOutstanding
  /\ OnlyForcedReplaces
  /\ AbortedCleanupKeepsFlag

====
